---- MODULE Spec2Model ----
(***************************************************************************)
(* Model of the time-series energy-window engine and the battery simulator *)
(* of p7microgrid (microgrid-starter-denmark/api).                         *)
(*                                                                         *)
(* Numbers.  The code computes in double-precision floating point; the     *)
(* model computes the same expressions in integers on a lattice of inputs: *)
(*   time    : minutes                                                     *)
(*   power   : 1/KW kW (tenths of a kW); a battery load in 1/LKW kW        *)
(*             (1e-6 kW)                                                   *)
(*   energy  : 1/KWH kWh for the battery.  KWH = 57 * 10^6 makes the       *)
(*             micro-kWh of the depletion test (57 units), one minute of   *)
(*             charge of one power unit (90250 units) and one minute of    *)
(*             discharge of one load unit (one unit), with efficiencies    *)
(*             19/20, whole numbers: no step of a whole number of minutes  *)
(*             leaves the lattice.                                         *)
(* Rounding.  A double carries a relative error of 2^-53 per operation, so *)
(* a comparison of two values that differ by a lattice unit comes out as   *)
(* in exact arithmetic, and the microsecond of the resampling loop cannot  *)
(* separate two lattice values.  A comparison of two values that are equal *)
(* in exact arithmetic is different: the doubles may fall on either side.  *)
(*   - line 66 of battery.py, soc <= 1e-6: a soc of exactly 1e-6 kWh is    *)
(*     held as a double just below or just above 1e-6 (discharging 1e-6   *)
(*     kWh a step, a soc of 2e-6 kWh tests depleted after one step and a   *)
(*     soc of 3e-6 kWh does not after two), so the test at MICRO is a      *)
(*     choice between the two outcomes.                                    *)
(*   - line 128 of main.py, e + 1e-12 >= need_kwh: the tolerance absorbs   *)
(*     the rounding of the prefix sums only while they are small.  Once    *)
(*     the error the sums can carry reaches 1e-12 kWh, an energy equal to  *)
(*     need_kwh may be refused (three samples of 10922.8 kW at 30 minutes  *)
(*     do not supply 16384.2 kWh), and the test at equality is a choice    *)
(*     between the two outcomes, the same for one pair of prefix sums      *)
(*     throughout a call.                                                  *)
(*   - line 135 of main.py, min(p_kw[i:j]) + 1e-12 < min_power_kw: the     *)
(*     same for a sample the endpoint computed (interpolated, summed)      *)
(*     whose exact value is the floor.                                     *)
(***************************************************************************)
EXTENDS Integers, Sequences, FiniteSets, TLC

VARIABLES
    capacity,    \* BatterySim.capacity
    soc,         \* BatterySim.soc
    pc,          \* "idle", "runtime" (inside the loop), "done" (a call has returned or raised)
    calls,       \* number of calls completed on this instance
    op,          \* the call in progress or just returned: "none", "step", "simulate_runtime", "simulate_until_targets"
    forecast,    \* argument: sequence of [ts, wind_kw]
    load_kw,     \* argument: load_kw / base_load_kw
    start,       \* argument: start
    targets_kwh, \* argument of simulate_until_targets (the values requested)
    i,           \* local: forecast cursor (0-based, as in the code)
    t,           \* local: simulated time
    result,      \* the value returned by the last call, or the exception it raised
    hist,        \* history of the call, for stating properties
    other,       \* the fields [capacity, soc] of a second BatterySim instance, if there is one
    call,        \* the last call of a pure function of api/main.py: its name and arguments
    ret,         \* the value that call returned
    threads      \* the operations two threads have in progress on the instance

bvars == <<capacity, soc, pc, calls, op, forecast, load_kw, start, targets_kwh,
           i, t, result, hist, other>>

fvars == <<call, ret>>

tvars == <<threads>>

vars == <<bvars, fvars, tvars>>

----------------------------------------------------------------------------
(* Units *)
KW  == 2 * 5                       \* power units per kW
LKW == KW * 100000                 \* battery load units per kW
KWH == 57 * 1000000                \* energy units per kWh
MICRO == KWH \div 1000000          \* 1e-6 kWh

(* config.py *)
SIM_STEP == 10
CHARGE_EFF_NUM == 19
CHARGE_EFF_DEN == 20
DISCHARGE_EFF_NUM == 19
DISCHARGE_EFF_DEN == 20
BATTERY_CAPACITY_KWH == 10 * KWH
INITIAL_SOC_KWH == 5 * KWH

Max(a, b) == IF a >= b THEN a ELSE b
Min(a, b) == IF a <= b THEN a ELSE b

\* Optional values (None / a value) are sets of at most one element.
None == {}
Some(x) == {x}

----------------------------------------------------------------------------
(* BatterySim *)

\* max(0.0, gen_kw) * CHARGE_EFF * h, h = dt/60 hours, in energy units
ChargeOf(gen_kw, dt) ==
    Max(0, gen_kw) * dt * CHARGE_EFF_NUM * (KWH \div (KW * 60 * CHARGE_EFF_DEN))

\* a discharge that multiplies by the efficiency instead of dividing by it
DischargeTimesEff(ld, dt) ==
    ((Max(0, ld) * dt) \div (DISCHARGE_EFF_DEN * DISCHARGE_EFF_DEN))
    * DISCHARGE_EFF_NUM * DISCHARGE_EFF_NUM
    * ((DISCHARGE_EFF_DEN * (KWH \div (60 * DISCHARGE_EFF_NUM))) \div LKW)

\* max(0.0, load_kw) * h / DISCHARGE_EFF, in energy units: one load unit
\* discharges KWH * 20 / (60 * 19 * LKW) = 1 energy unit a minute, so the
\* product is exact for every load and every dt on the lattice
DischargeOf(ld, dt) ==
    Max(0, ld) * dt * ((DISCHARGE_EFF_DEN * (KWH \div (60 * DISCHARGE_EFF_NUM))) \div LKW)

\* a step that nets generation against load before clamping
StepNetting(cap, s, gen_kw, ld, dt) ==
    Max(0, Min(cap, s + ChargeOf(gen_kw, dt) - DischargeOf(ld, dt)))

\* a step that forgets the capacity cap
StepNoCap(cap, s, gen_kw, ld, dt) ==
    Max(0, s + ChargeOf(gen_kw, dt) - DischargeOf(ld, dt))

\* BatterySim.step: the new soc
StepSoc(cap, s, gen_kw, ld, dt) ==
    LET charged == Min(cap, s + ChargeOf(gen_kw, dt))
    IN  Max(0, charged - DischargeOf(ld, dt))

\* BatterySim.__init__: the soc it stores
InitSoc(capacity_kwh, soc_kwh) == Max(0, Min(soc_kwh, capacity_kwh))

\* a cursor that never moves
AdvanceCursorStuck(f, k, now) == k

\* the cursor loop: while i + 1 < len(forecast) and forecast[i + 1]["ts"] <= t: i += 1
RECURSIVE AdvanceCursor(_, _, _)
AdvanceCursor(f, k, now) ==
    IF k + 1 < Len(f) /\ f[k + 2].ts <= now
    THEN AdvanceCursor(f, k + 1, now)
    ELSE k

\* gen_kw = forecast[i]["wind_kw"] if i < len(forecast) else 0.0
GenAt(f, k) == IF k < Len(f) THEN f[k + 1].wind_kw ELSE 0

\* line 66: self.soc <= 1e-6 compares doubles.  Below and above the
\* threshold the outcome is that of exact arithmetic; a soc of exactly
\* 1e-6 kWh is held just below or just above it, and the test goes either way.
BelowOrAbove(s) == IF s = MICRO THEN BOOLEAN ELSE {TRUE}

Depleted(s, below) == s < MICRO \/ (s = MICRO /\ below)

\* no second instance
NoInstance == <<>>

\* an assignment that lands in an attribute all instances share
OthersShared(o, s) == [o EXCEPT !.soc = s]

\* lines 10, 19, 20: self.soc = s assigns an attribute of the instance the
\* call is made on; the fields o of another instance are left as they are
Others(o, s) == o

\* the two threads that may call into one instance
Threads == {1, 2}

\* a thread with no call in progress
IdleThread ==
    [op |-> "none", pc |-> "idle", gen_kw |-> 0, load_kw |-> 0, dt |-> 0, reg |-> 0,
     forecast |-> <<>>, i |-> 0, t |-> 0, start |-> 0, start_soc |-> 0, result |-> <<>>]

NoThreads == [th \in Threads |-> IdleThread]

----------------------------------------------------------------------------
(* Bounds and input sets *)
MaxCalls == 2        \* calls made on one instance
MaxFc == 2           \* samples of an enumerated forecast
MaxTargets == 2      \* targets of one simulate_until_targets call

\* __init__ takes any capacity_kwh: 0, 1 kWh and the default
CapVals == {0, KWH, BATTERY_CAPACITY_KWH}
\* below, at and above the default; 30 units are about 5e-7 kWh, and
\* 1e-6 kWh above two steps of 2 kW meets the depletion threshold exactly
SocArgs == {0 - KWH, 30, 4 * 10000000 + 30, MICRO + 2 * 20000000, INITIAL_SOC_KWH, 12 * KWH}
GenVals == {0 - KW, 0, 3 * KW, 60 * KW}
\* one load unit is 1e-6 kW
LoadVals == {0 - LKW, 0, 1, 3, 2 * LKW}
\* any whole number of minutes, the simulation step among them
DtVals == {1, 5, SIM_STEP}
StartTimes == {10}
FcTimes == {0, 20}
FcWinds == {0, 3 * KW}
\* targets below, at and above the default soc
TargetVals == {4 * KWH, INITIAL_SOC_KWH, INITIAL_SOC_KWH + 20, 9 * KWH}

Sample(ts, w) == [ts |-> ts, wind_kw |-> w]

RECURSIVE SeqsUpTo(_, _)
SeqsUpTo(S, n) ==
    IF n = 0 THEN {<<>>}
    ELSE LET prev == SeqsUpTo(S, n - 1)
         IN  prev \cup {Append(s, x) : s \in {p \in prev : Len(p) = n - 1}, x \in S}

StrictlyIncreasingTs(f) == \A k \in 1..(Len(f) - 1) : f[k].ts < f[k + 1].ts

\* forecasts with strictly increasing timestamps, plus zero-generation ones
\* that reach further: two samples, and a single sample far ahead
Forecasts ==
    {f \in SeqsUpTo({Sample(ts, w) : ts \in FcTimes, w \in FcWinds}, MaxFc) :
        StrictlyIncreasingTs(f)}
    \cup {<<Sample(0, 0), Sample(h, 0)>> : h \in {30, 150, 160}}
    \cup {<<Sample(160, 0)>>}

TargetSets == {T \in SUBSET TargetVals : Cardinality(T) <= MaxTargets}

NoHist == [soc0 |-> 0, steps |-> 0, pre |-> 0, gen |-> 0, ld |-> 0, dt |-> 0,
           exhausted |-> FALSE]

----------------------------------------------------------------------------
(* State machine of one BatterySim instance *)

Init ==
    /\ \E c \in CapVals, s \in SocArgs :
          /\ capacity = c
          /\ soc = InitSoc(c, s)
    /\ pc = "idle"
    /\ calls = 0
    /\ op = "none"
    /\ forecast = <<>>
    /\ load_kw = 0
    /\ start = 0
    /\ targets_kwh = {}
    /\ i = 0
    /\ t = 0
    /\ result = <<>>
    /\ hist = NoHist
    /\ other = NoInstance
    /\ call = [fn |-> "none"]
    /\ ret = <<>>
    /\ threads = NoThreads

\* a direct call of step(gen_kw, load_kw, dt)
step ==
    /\ pc = "idle"
    /\ calls < MaxCalls
    /\ \E g \in GenVals, l \in LoadVals, d \in DtVals :
          /\ soc' = StepSoc(capacity, soc, g, l, d)
          /\ load_kw' = l
          /\ hist' = [NoHist EXCEPT !.soc0 = soc, !.steps = 1, !.pre = soc,
                                    !.gen = g, !.ld = l, !.dt = d]
    /\ pc' = "done"
    /\ op' = "step"
    /\ result' = <<>>
    /\ UNCHANGED <<capacity, calls, forecast, start, targets_kwh, i, t>>
    /\ other' = Others(other, soc')
    /\ UNCHANGED <<fvars, tvars>>

\* simulate_runtime: entry (lines 58-59)
simulate_runtime ==
    /\ pc = "idle"
    /\ calls < MaxCalls
    /\ \E f \in Forecasts, l \in LoadVals, st \in StartTimes :
          /\ forecast' = f
          /\ load_kw' = l
          /\ start' = st
          /\ t' = st
    /\ i' = 0
    /\ pc' = "runtime"
    /\ op' = "simulate_runtime"
    /\ result' = <<>>
    /\ hist' = [NoHist EXCEPT !.soc0 = soc]
    /\ UNCHANGED <<capacity, soc, other, calls, targets_kwh>>
    /\ UNCHANGED <<fvars, tvars>>

\* simulate_runtime: one pass of the while True loop (lines 60-77)
runtime_iter ==
    /\ pc = "runtime"
    /\ LET i2 == AdvanceCursor(forecast, i, t)
           gen_kw == GenAt(forecast, i2)
           soc2 == StepSoc(capacity, soc, gen_kw, load_kw, SIM_STEP)
           t2 == t + SIM_STEP
           estimate(depleted) == [load_kw |-> load_kw, start_soc_kwh |-> hist.soc0,
                                  runtime_minutes |-> t2 - start, end_time |-> t2,
                                  depleted |-> depleted]
       IN  /\ i' = i2
           /\ soc' = soc2
           /\ t' = t2
           /\ hist' = [hist EXCEPT !.steps = @ + 1, !.pre = soc, !.gen = gen_kw,
                                   !.ld = load_kw, !.dt = SIM_STEP,
                                   !.exhausted = i2 >= Len(forecast) - 1]
           /\ \E below \in BelowOrAbove(soc2) :
                 IF Depleted(soc2, below)
                 THEN /\ result' = estimate(TRUE)
                      /\ pc' = "done"
                 ELSE IF i2 >= Len(forecast) - 1
                 THEN /\ result' = estimate(FALSE)
                      /\ pc' = "done"
                 ELSE /\ result' = result
                      /\ pc' = "runtime"
    /\ UNCHANGED <<capacity, calls, op, forecast, load_kw, start, targets_kwh>>
    /\ other' = Others(other, soc')
    /\ UNCHANGED <<fvars, tvars>>

\* what the attribute lookup of a name the class does not define raises
AttributeError == [raised |-> "AttributeError"]

\* a call of simulate_until_targets on an instance.  The def at line 23 is
\* indented under step: it is a local function that step creates and drops,
\* not an attribute of BatterySim, so the attribute lookup of the call raises
\* AttributeError whatever the arguments are, and the instance is left as it
\* is.  Lines 24-55 are never executed.
simulate_until_targets ==
    /\ pc = "idle"
    /\ calls < MaxCalls
    /\ \E f \in Forecasts, tg \in TargetSets, l \in LoadVals, st \in StartTimes :
          /\ forecast' = f
          /\ targets_kwh' = tg
          /\ load_kw' = l
          /\ start' = st
    /\ pc' = "done"
    /\ op' = "simulate_until_targets"
    /\ result' = AttributeError
    /\ hist' = [NoHist EXCEPT !.soc0 = soc]
    /\ UNCHANGED <<capacity, soc, other, calls, i, t>>
    /\ UNCHANGED <<fvars, tvars>>

\* the returned value is consumed: only the instance's fields live on
return ==
    /\ pc = "done"
    /\ pc' = "idle"
    /\ calls' = calls + 1
    /\ op' = "none"
    /\ forecast' = <<>>
    /\ load_kw' = 0
    /\ start' = 0
    /\ targets_kwh' = {}
    /\ i' = 0
    /\ t' = 0
    /\ result' = <<>>
    /\ hist' = NoHist
    /\ UNCHANGED <<capacity, soc, other>>
    /\ UNCHANGED <<fvars, tvars>>

Next ==
    \/ step
    \/ simulate_runtime
    \/ runtime_iter
    \/ simulate_until_targets
    \/ return

Spec == Init /\ [][Next]_vars

\* a live instance, BatterySim() or BatterySim(1 kWh, 0.7 kWh), and a copy
\* seeded from it, BatterySim(live.capacity, live.soc), on which the calls
\* are made: the copy is this machine's instance, the live one is other
InitCopy ==
    /\ \E c \in {KWH, BATTERY_CAPACITY_KWH} :
          LET s == IF c = KWH THEN 4 * 10000000 + 30 ELSE INITIAL_SOC_KWH
              live == [capacity |-> c, soc |-> InitSoc(c, s)]
          IN  /\ other = live
              /\ capacity = live.capacity
              /\ soc = InitSoc(live.capacity, live.soc)
    /\ pc = "idle"
    /\ calls = 0
    /\ op = "none"
    /\ forecast = <<>>
    /\ load_kw = 0
    /\ start = 0
    /\ targets_kwh = {}
    /\ i = 0
    /\ t = 0
    /\ result = <<>>
    /\ hist = NoHist
    /\ call = [fn |-> "none"]
    /\ ret = <<>>
    /\ threads = NoThreads

SpecCopy == InitCopy /\ [][Next]_vars

----------------------------------------------------------------------------
(* api/main.py: _find_windows *)

\* energy of the window search: power units * minutes; 1 kWh = WKWH
WKWH == KW * 60

\* pref = [0.0]; for v in p_kw: pref.append(pref[-1] + v * step_h)
\* (a sequence whose element k + 1 is the code's pref[k]; step_h = step_minutes / 60)
RECURSIVE Prefix(_, _)
Prefix(p_kw, step_minutes) ==
    IF p_kw = <<>> THEN <<0>>
    ELSE LET front == Prefix(SubSeq(p_kw, 1, Len(p_kw) - 1), step_minutes)
         IN  Append(front, front[Len(front)] + p_kw[Len(p_kw)] * step_minutes)

\* pref[b] - pref[a]
Energy(pref, a, b) == pref[b + 1] - pref[a + 1]

\* 1e-12 / 2^-53, rounded down: the relative roundings of a double that the
\* tolerance of lines 128 and 135 is worth
TOLERANCE_ULPS == 9007

Abs(x) == IF x < 0 THEN 0 - x ELSE x

\* sum of |v| * step_minutes over the series
RECURSIVE AbsEnergy(_, _)
AbsEnergy(p_kw, step_minutes) ==
    IF p_kw = <<>> THEN 0
    ELSE Abs(p_kw[1]) * step_minutes + AbsEnergy(SubSeq(p_kw, 2, Len(p_kw)), step_minutes)

\* the doubles pref[m], ..., pref[k] are one value when the samples between
\* add nothing (x + 0.0 = x): the least such m
RECURSIVE Rep(_, _)
Rep(pref, k) == IF k > 0 /\ pref[k] = pref[k + 1] THEN Rep(pref, k - 1) ELSE k

\* the pairs of prefix sums a search may subtract whose difference is
\* need_kwh in exact arithmetic, each pair named by its doubles
EnergyTies(pref, need_kwh) ==
    {<<Rep(pref, ab[1]), Rep(pref, ab[2])>> :
        ab \in {xy \in (0..(Len(pref) - 1)) \X (0..(Len(pref) - 1)) :
                  xy[1] < xy[2] /\ Energy(pref, xy[1], xy[2]) = need_kwh}}

\* lines 116-118 and 127-128: every product v * step_h, every addition
\* pref[-1] + ..., the difference pref[mid] - pref[i] and the sum e + 1e-12
\* round by at most 2^-53 of their value, so that the doubles of line 128
\* are off by at most (2 n + 6) * (sum of |v| * step_h + |need_kwh|) * 2^-53.
\* Below 1e-12 kWh an energy equal to need_kwh is accepted, as in exact
\* arithmetic; from there on the doubles decide.  energy is the sum of
\* |v| * step_minutes, unit the number of energy units in one kWh.
RoundingReaches(n, energy, need_kwh, unit) ==
    energy + Abs(need_kwh) >= (TOLERANCE_ULPS * unit) \div (2 * n + 6)

\* the pairs of prefix sums of a call whose test at line 128 the doubles decide
EnergyDoubts(p_kw, step_minutes, need_kwh) ==
    IF RoundingReaches(Len(p_kw), AbsEnergy(p_kw, step_minutes), need_kwh, WKWH)
    THEN EnergyTies(Prefix(p_kw, step_minutes), need_kwh)
    ELSE {}

\* what the doubles of one call decide: lost, the pairs of prefix sums whose
\* difference equals need_kwh and tests below it at line 128; low, the
\* indices of the samples that equal min_power_kw and test below it at line 135
Rounding(lost, low) == [lost |-> lost, low |-> low]
Roundings(energy_doubts, floor_doubts) ==
    {Rounding(lost, low) : lost \in SUBSET energy_doubts, low \in SUBSET floor_doubts}

\* line 128: e + 1e-12 >= need_kwh, e = pref[b] - pref[a]
Suffices(pref, a, b, need_kwh, lost) ==
    \/ Energy(pref, a, b) > need_kwh
    \/ Energy(pref, a, b) = need_kwh /\ <<Rep(pref, a), Rep(pref, b)>> \notin lost

\* a search that takes the whole rest of the series whenever it suffices
BinarySearchToEnd(pref, a, need_kwh, lo, hi, j, lost) ==
    IF lo <= hi /\ Suffices(pref, a, hi, need_kwh, lost) THEN Some(hi) ELSE j

\* lines 124-131: the while lo <= hi loop
RECURSIVE BinarySearch(_, _, _, _, _, _, _)
BinarySearch(pref, a, need_kwh, lo, hi, j, lost) ==
    IF lo > hi THEN j
    ELSE LET mid == (lo + hi) \div 2
         IN  IF Suffices(pref, a, mid, need_kwh, lost)
             THEN BinarySearch(pref, a, need_kwh, lo, mid - 1, Some(mid), lost)
             ELSE BinarySearch(pref, a, need_kwh, mid + 1, hi, j, lost)

\* min(p_kw[i:j])
MinOf(S) == LET x == CHOOSE y \in S : \A z \in S : y <= z IN x
MinSlice(p_kw, a, b) == MinOf({p_kw[k + 1] : k \in a..(b - 1)})

\* a floor test that looks at the first sample of the window only
BelowFloorFirstOnly(p_kw, a, b, min_power_kw, low) ==
    min_power_kw # None /\ \E F \in min_power_kw : p_kw[a + 1] < F \/ a \in low

\* line 135: min_power_kw is not None and min(p_kw[i:j]) + 1e-12 < min_power_kw
BelowFloor(p_kw, a, b, min_power_kw, low) ==
    min_power_kw # None /\ \E F \in min_power_kw :
        MinSlice(p_kw, a, b) < F \/ (a..(b - 1)) \cap low # {}

\* lines 137-143: the window appended for (i, j); avg_kw = e / (dur_steps * step_h)
\* is kept as the fraction <<e, dur_steps * step_minutes>> (power units)
Window(ts, p_kw, pref, step_minutes, a, b) ==
    [start |-> ts[a + 1], end |-> ts[b] + step_minutes,
     kwh |-> Energy(pref, a, b),
     avg_kw |-> <<Energy(pref, a, b), (b - a) * step_minutes>>,
     min_kw |-> MinSlice(p_kw, a, b), steps |-> b - a]

\* lines 122-145: the for i in range(n) loop from index a on, with out so far
RECURSIVE WindowLoop(_, _, _, _, _, _, _, _, _)
WindowLoop(ts, p_kw, pref, step_minutes, need_kwh, min_power_kw, max_windows, st, rnd) ==
    LET a == st.i
        n == Len(ts)
        j == BinarySearch(pref, a, need_kwh, a + 1, n, None, rnd.lost)
        next == [st EXCEPT !.i = a + 1]
    IN  IF a >= n THEN st.out
        ELSE IF j = None
        THEN WindowLoop(ts, p_kw, pref, step_minutes, need_kwh, min_power_kw, max_windows,
                        next, rnd)
        ELSE LET b == CHOOSE x \in j : TRUE
                 out2 == Append(st.out, Window(ts, p_kw, pref, step_minutes, a, b))
             IN  IF BelowFloor(p_kw, a, b, min_power_kw, rnd.low)
                 THEN WindowLoop(ts, p_kw, pref, step_minutes, need_kwh, min_power_kw,
                                 max_windows, next, rnd)
                 ELSE IF Len(out2) >= max_windows
                 THEN out2
                 ELSE WindowLoop(ts, p_kw, pref, step_minutes, need_kwh, min_power_kw,
                                 max_windows, [next EXCEPT !.out = out2], rnd)

\* _find_windows(ts, p_kw, step_minutes, need_kwh, min_power_kw, max_windows),
\* with what the doubles of the call decide
FindWindows(ts, p_kw, step_minutes, need_kwh, min_power_kw, max_windows, rnd) ==
    IF ts = <<>> THEN <<>>
    ELSE WindowLoop(ts, p_kw, Prefix(p_kw, step_minutes), step_minutes, need_kwh,
                    min_power_kw, max_windows, [i |-> 0, out |-> <<>>], rnd)

----------------------------------------------------------------------------
(* api/main.py: _interp_series *)

\* a value of the output: the fraction num/den (originals have den = 1)
Frac(num, den) == <<num, den>>

\* a fill that weighs the slope by the time left to t1
RECURSIVE FillBetweenFromEnd(_, _, _, _, _, _, _)
FillBetweenFromEnd(t0, v0, t1, v1, now, step_minutes, out) ==
    IF now < t1
    THEN FillBetweenFromEnd(t0, v0, t1, v1, now + step_minutes, step_minutes,
                     Append(out, [ts |-> now,
                                  v |-> Frac(v0 * (t1 - t0) + (t1 - now) * (v1 - v0), t1 - t0)]))
    ELSE out

\* a fill that runs up to and including t1
RECURSIVE FillBetweenInclusive(_, _, _, _, _, _, _)
FillBetweenInclusive(t0, v0, t1, v1, now, step_minutes, out) ==
    IF now <= t1
    THEN FillBetweenInclusive(t0, v0, t1, v1, now + step_minutes, step_minutes,
                     Append(out, [ts |-> now,
                                  v |-> Frac(v0 * (t1 - t0) + (now - t0) * (v1 - v0), t1 - t0)]))
    ELSE out

\* lines 85-90: t = t0 + step; while t < t1 - 1e-6 s: append the interpolated sample; t += step
RECURSIVE FillBetween(_, _, _, _, _, _, _)
FillBetween(t0, v0, t1, v1, now, step_minutes, out) ==
    IF now < t1
    THEN FillBetween(t0, v0, t1, v1, now + step_minutes, step_minutes,
                     Append(out, [ts |-> now,
                                  v |-> Frac(v0 * (t1 - t0) + (now - t0) * (v1 - v0), t1 - t0)]))
    ELSE out

\* lines 76-90: the for i in range(len(points) - 1) loop from index k on
RECURSIVE SegmentLoop(_, _, _, _)
SegmentLoop(points, step_minutes, k, out) ==
    IF k >= Len(points) - 1 THEN out
    ELSE LET t0 == points[k + 1].ts
             v0 == points[k + 1].v
             t1 == points[k + 2].ts
             v1 == points[k + 2].v
             out1 == IF k = 0 THEN Append(out, [ts |-> t0, v |-> Frac(v0, 1)]) ELSE out
         IN  IF t1 <= t0
             THEN SegmentLoop(points, step_minutes, k + 1, out)
             ELSE SegmentLoop(points, step_minutes, k + 1,
                              FillBetween(t0, v0, t1, v1, t0 + step_minutes, step_minutes, out1))

\* a resampling that leaves out the closing append of the last sample
InterpSeriesNoLast(points, step_minutes) ==
    IF points = <<>> THEN <<>>
    ELSE SegmentLoop(points, step_minutes, 0, <<>>)

\* _interp_series(points, key, step_minutes); a point is [ts, v], v the value under key
InterpSeries(points, step_minutes) ==
    IF points = <<>> THEN <<>>
    ELSE Append(SegmentLoop(points, step_minutes, 0, <<>>),
                [ts |-> points[Len(points)].ts, v |-> Frac(points[Len(points)].v, 1)])

----------------------------------------------------------------------------
(* api/main.py: _nearest_value and the schedule operations *)

\* bisect_left(a, x): the first index (from 0) whose element is not below x
RECURSIVE BisectLeft(_, _, _, _)
BisectLeft(a, x, lo, hi) ==
    IF lo < hi
    THEN LET mid == (lo + hi) \div 2
         IN  IF a[mid + 1] < x THEN BisectLeft(a, x, mid + 1, hi)
             ELSE BisectLeft(a, x, lo, mid)
    ELSE lo

\* a lookup that gives a tie to the later sample
NearestValueTieLater(ts_list, value_list, x) ==
    IF ts_list = <<>> THEN Frac(0, 1)
    ELSE LET k == BisectLeft(ts_list, x, 0, Len(ts_list))
         IN  IF k <= 0 THEN value_list[1]
             ELSE IF k >= Len(ts_list) THEN value_list[Len(value_list)]
             ELSE IF x - ts_list[k] < ts_list[k + 1] - x
             THEN value_list[k] ELSE value_list[k + 1]

\* _nearest_value(ts_list, value_list, ts) and the local _nearest of
\* schedule_combined_historic; values are fractions, 0.0 is Frac(0, 1)
NearestValue(ts_list, value_list, x) ==
    IF ts_list = <<>> THEN Frac(0, 1)
    ELSE LET k == BisectLeft(ts_list, x, 0, Len(ts_list))
         IN  IF k <= 0 THEN value_list[1]
             ELSE IF k >= Len(ts_list) THEN value_list[Len(value_list)]
             ELSE IF x - ts_list[k] <= ts_list[k + 1] - x
             THEN value_list[k] ELSE value_list[k + 1]

RECURSIVE Gcd(_, _)
Gcd(a, b) == IF b = 0 THEN a ELSE Gcd(b, a % b)

\* the fraction num/den in lowest terms
Reduced(v) ==
    LET g == Gcd(Abs(v[1]), v[2])
    IN  Frac(v[1] \div g, v[2] \div g)

\* line 528: _nearest(w_ts, w_v, t) + _nearest(s_ts, s_v, t), a sum of floats
AddFrac(x, y) == Reduced(Frac(x[1] * y[2] + y[1] * x[2], x[2] * y[2]))

\* the least common denominator of a series of fractions
RECURSIVE LcmDen(_)
LcmDen(vs) ==
    IF vs = <<>> THEN 1
    ELSE LET rest == LcmDen(SubSeq(vs, 2, Len(vs)))
             d == Reduced(vs[1])[2]
         IN  (rest * d) \div Gcd(rest, d)

\* _find_windows on a series of fractions: the search runs on the series
\* brought to its common denominator L (need and floor scaled alike), and the
\* windows' kwh, avg_kw and min_kw are given back as fractions over L
FindWindowsFrac(ts, vs, step_minutes, need_kwh, min_power_kw, max_windows, rnd) ==
    LET L == LcmDen(vs)
        p_kw == [k \in 1..Len(vs) |-> Reduced(vs[k])[1] * (L \div Reduced(vs[k])[2])]
        out == FindWindows(ts, p_kw, step_minutes, need_kwh * L,
                           {F * L : F \in min_power_kw}, max_windows, rnd)
    IN  [k \in 1..Len(out) |->
            [start |-> out[k].start, end |-> out[k].end, steps |-> out[k].steps,
             kwh |-> Frac(out[k].kwh, L),
             avg_kw |-> Frac(out[k].avg_kw[1], out[k].avg_kw[2] * L),
             min_kw |-> Frac(out[k].min_kw, L)]]

\* sorted(set(...)): the elements of a set of timestamps in increasing order
RECURSIVE SortedSet(_)
SortedSet(S) ==
    IF S = {} THEN <<>>
    ELSE LET m == CHOOSE x \in S : \A y \in S : x <= y
         IN  <<m>> \o SortedSet(S \ {m})

TsOf(series) == [k \in 1..Len(series) |-> series[k].ts]
ValuesOf(series) == [k \in 1..Len(series) |-> series[k].v]

\* windows[:10]
FirstTen(windows) == SubSeq(windows, 1, Min(10, Len(windows)))

\* need_kwh = (power_w / 1000) * (duration_min / 60), in power units * minutes
NeedKwh(power, duration_min) == power * duration_min

\* min_power_kw = (power_w / 1000) if require_power_floor else None
PowerFloor(power, require_power_floor) == IF require_power_floor THEN Some(power) ELSE None

InsufficientData == [ok |-> TRUE, windows |-> <<>>, reason |-> Some("insufficient data"),
                     tot_ts |-> <<>>, tot_kw |-> <<>>, w |-> <<>>, s |-> <<>>]

\* the largest |v| of a source series, 0 for none
Peak(source) ==
    IF source = <<>> THEN 0
    ELSE LET S == {Abs(source[k].v) : k \in 1..Len(source)}
         IN  CHOOSE x \in S : \A y \in S : y <= x

\* the series of fractions on its common denominator, and that denominator
Scaled(vs) ==
    [k \in 1..Len(vs) |-> Reduced(vs[k])[1] * (LcmDen(vs) \div Reduced(vs[k])[2])]

\* what the doubles of a schedule call decide.  The samples of tot_kw come
\* out of lines 86-87 and 528, v0 + a * (v1 - v0) and a sum of two such: each
\* is off by a few 2^-53 of the sources' peak, whatever its own size.
\*   line 128: the pairs of prefix sums at exactly need_kwh, when n samples
\*     of three times the peak and need_kwh reach the tolerance;
\*   line 135: the samples at exactly min_power_kw, when eight roundings of
\*     the peak reach 1e-12 kW.
ScheduleRoundings(tot_kw, peak, step_minutes, power, duration_min, require_power_floor) ==
    LET n == Len(tot_kw)
        L == LcmDen(tot_kw)
        energy_doubts ==
            IF RoundingReaches(n, 3 * n * peak * step_minutes,
                               NeedKwh(power, duration_min), WKWH)
            THEN EnergyTies(Prefix(Scaled(tot_kw), step_minutes),
                            NeedKwh(power, duration_min) * L)
            ELSE {}
        floor_doubts ==
            IF require_power_floor /\ 8 * peak >= TOLERANCE_ULPS * KW
            THEN {k \in 0..(n - 1) : Scaled(tot_kw)[k + 1] = power * L}
            ELSE {}
    IN  Roundings(energy_doubts, floor_doubts)

\* lines 420-422 and 461-463: the series the single-source search runs on
ResampledSingle(source, step_minutes) ==
    IF Len(source) < 2 THEN <<>> ELSE ValuesOf(InterpSeries(source, step_minutes))

\* schedule_wind_historic and schedule_solar_historic from the clipped source
\* series on: the answer's ok, windows and reason (None when the key is
\* absent), with the resampled series the search ran on
ScheduleSingle(source, step_minutes, power, duration_min, require_power_floor, rnd) ==
    IF Len(source) < 2 THEN InsufficientData
    ELSE LET w == InterpSeries(source, step_minutes)
             windows == FindWindowsFrac(TsOf(w), ValuesOf(w), step_minutes,
                                        NeedKwh(power, duration_min),
                                        PowerFloor(power, require_power_floor), 10, rnd)
         IN  [ok |-> TRUE, windows |-> FirstTen(windows), reason |-> None,
              tot_ts |-> TsOf(w), tot_kw |-> ValuesOf(w), w |-> w, s |-> <<>>]

\* a combined series that takes the wind value alone
CombinedWindOnly(w, s, grid) ==
    [k \in 1..Len(grid) |-> NearestValue(TsOf(w), ValuesOf(w), grid[k])]

\* lines 526-529: tot_kw over the unified timeline
Combined(w, s, grid) ==
    [k \in 1..Len(grid) |->
        AddFrac(NearestValue(TsOf(w), ValuesOf(w), grid[k]),
                NearestValue(TsOf(s), ValuesOf(s), grid[k]))]

\* lines 512-529: the series the combined search runs on
ResampledCombined(wind, solar, step_minutes) ==
    IF Len(wind) < 2 /\ Len(solar) < 2 THEN <<>>
    ELSE LET w == IF wind # <<>> THEN InterpSeries(wind, step_minutes) ELSE <<>>
             s == IF solar # <<>> THEN InterpSeries(solar, step_minutes) ELSE <<>>
         IN  Combined(w, s, SortedSet({(w \o s)[k].ts : k \in 1..(Len(w) + Len(s))}))

\* schedule_combined_historic from the clipped source series on
ScheduleCombined(wind, solar, step_minutes, power, duration_min, require_power_floor, rnd) ==
    IF Len(wind) < 2 /\ Len(solar) < 2 THEN InsufficientData
    ELSE LET w == IF wind # <<>> THEN InterpSeries(wind, step_minutes) ELSE <<>>
             s == IF solar # <<>> THEN InterpSeries(solar, step_minutes) ELSE <<>>
             grid == SortedSet({(w \o s)[k].ts : k \in 1..(Len(w) + Len(s))})
             tot_kw == Combined(w, s, grid)
             windows == FindWindowsFrac(grid, tot_kw, step_minutes,
                                        NeedKwh(power, duration_min),
                                        PowerFloor(power, require_power_floor), 10, rnd)
         IN  [ok |-> TRUE, windows |-> FirstTen(windows), reason |-> None,
              tot_ts |-> grid, tot_kw |-> tot_kw, w |-> w, s |-> s]

----------------------------------------------------------------------------
(* api/services/weather.py: _integrate_energy_kwh *)

\* a loop that adds every pair, whatever the sign of its time difference
RECURSIVE IntegrateLoopNoSkip(_, _, _)
IntegrateLoopNoSkip(points, k, total) ==
    IF k >= Len(points) THEN total
    ELSE LET dh == points[k + 1].ts - points[k].ts
         IN  IntegrateLoopNoSkip(points, k + 1,
                                 total + (points[k].v + points[k + 1].v) * dh)

\* lines 118-124: the for i in range(1, len(points)) loop from index k on;
\* total is kept doubled, the factor 0.5 being applied at the return
RECURSIVE IntegrateLoop(_, _, _)
IntegrateLoop(points, k, total) ==
    IF k >= Len(points) THEN total
    ELSE LET dh == points[k + 1].ts - points[k].ts
         IN  IntegrateLoop(points, k + 1,
                           IF dh > 0 THEN total + (points[k].v + points[k + 1].v) * dh
                           ELSE total)

\* _integrate_energy_kwh(points, key), in power units * minutes, as a fraction
IntegrateEnergyKwh(points) ==
    IF Len(points) < 2 THEN Frac(0, 1)
    ELSE Frac(IntegrateLoop(points, 1, 0), 2)

----------------------------------------------------------------------------
(* api/services/schedule.py: green_windows; timestamps here are in seconds *)

\* whole minutes, rounded up
MinutesCeil(seconds) == (seconds + 59) \div 60

\* int((end - start).total_seconds() // 60)
Minutes(seconds) == seconds \div 60

\* lines 26-30 and 33-36: the run from start closed at end, appended when it
\* is long enough
CloseRun(st, end, min_block_minutes) ==
    IF st.start = None THEN st.out
    ELSE LET s0 == CHOOSE x \in st.start : TRUE
         IN  IF Minutes(end - s0) >= min_block_minutes
             THEN Append(st.out, [start |-> s0, end |-> end,
                                  avg_margin_kw |-> Frac(st.acc_margin, Max(st.count, 1))])
             ELSE st.out

\* a loop that closes a run at a sample with negative margin and leaves it open
RECURSIVE GreenLoopKeepsRun(_, _, _, _, _)
GreenLoopKeepsRun(fc, ld, min_block_minutes, k, st) ==
    IF k >= Len(fc) THEN st
    ELSE LET r == fc[k + 1]
             margin == r.wind_kw - ld
             opened == IF st.start = None
                       THEN [st EXCEPT !.start = Some(r.ts), !.acc_margin = 0, !.count = 0]
                       ELSE st
         IN  IF margin >= 0
             THEN GreenLoopKeepsRun(fc, ld, min_block_minutes, k + 1,
                                    [opened EXCEPT !.acc_margin = @ + margin, !.count = @ + 1])
             ELSE GreenLoopKeepsRun(fc, ld, min_block_minutes, k + 1,
                                    [st EXCEPT !.out = CloseRun(st, r.ts, min_block_minutes)])

\* lines 15-30: the for i, r in enumerate(forecast) loop from index k on
RECURSIVE GreenLoop(_, _, _, _, _)
GreenLoop(fc, ld, min_block_minutes, k, st) ==
    IF k >= Len(fc) THEN st
    ELSE LET r == fc[k + 1]
             margin == r.wind_kw - ld
             opened == IF st.start = None
                       THEN [st EXCEPT !.start = Some(r.ts), !.acc_margin = 0, !.count = 0]
                       ELSE st
         IN  IF margin >= 0
             THEN GreenLoop(fc, ld, min_block_minutes, k + 1,
                            [opened EXCEPT !.acc_margin = @ + margin, !.count = @ + 1])
             ELSE GreenLoop(fc, ld, min_block_minutes, k + 1,
                            [st EXCEPT !.out = CloseRun(st, r.ts, min_block_minutes),
                                       !.start = None])

\* green_windows(forecast, load_kw, min_block_minutes)
GreenWindows(fc, ld, min_block_minutes) ==
    IF fc = <<>> THEN <<>>
    ELSE LET st == GreenLoop(fc, ld, min_block_minutes, 0,
                             [start |-> None, acc_margin |-> 0, count |-> 0, out |-> <<>>])
         IN  CloseRun(st, fc[Len(fc)].ts, min_block_minutes)

----------------------------------------------------------------------------
(* Calls of the pure functions.  They keep no state between calls, so one   *)
(* call per behaviour, from the state with no call made, shows all they do. *)
MaxLen == 4          \* samples of a power series given to _find_windows
MaxPts == 3          \* points of a series given to _interp_series
MaxConst == 8        \* samples of a constant power series given to _find_windows
MaxBig == 4          \* samples of a series of large powers given to _find_windows

PowerVals == {0 - KW, 0, KW, 2 * KW}
StepVals == {5, 30}
NeedVals == {0, 5 * KW, 30 * KW, WKWH, 2 * WKWH}
FloorVals == {None, Some(KW), Some(2 * KW)}
MaxWindowsVals == {0, 1, 2, 10}
PointTimes == {0, 30, 50, 60, 120}
PointVals == {0, 10 * KW}
InterpSteps == {15, 30, 60}

ConstVals == {KW, 4 * KW}
ConstSeries == {[k \in 1..n |-> G] : n \in 1..MaxConst, G \in ConstVals}
PowerSeries == SeqsUpTo(PowerVals, MaxLen) \cup ConstSeries

\* series of 10922.8 kW and 0 kW samples: from three samples at 30 minutes
\* on the prefix sums pass 2^14 kWh, where a double resolves 3.6e-12 kWh
BigPower == 10922 * KW + 8
BigSeries == SeqsUpTo({0, BigPower}, MaxBig) \ {<<>>}

\* the requirements of a call: those of one, two and three samples for a
\* series of large powers
NeedsFor(p_kw, step_minutes) ==
    IF p_kw \in BigSeries THEN {k * BigPower * step_minutes : k \in 1..3} ELSE NeedVals
FloorsFor(p_kw) ==
    IF p_kw \in BigSeries THEN {None, Some(BigPower)} ELSE FloorVals

\* timestamp lists of n samples for a direct call: _find_windows takes any
\* list and never compares its timestamps with step_minutes.  The lists the
\* schedule operations hand over are of three shapes: on the step grid, the
\* grid with the last source sample appended off it, and the grid with a
\* gap of two steps where an inner source sample was left out.
GridTs(n, step_minutes) == [k \in 1..n |-> (k - 1) * step_minutes]
OffGridLast(n, step_minutes) ==
    [k \in 1..n |-> IF k = n THEN (n - 2) * step_minutes + (step_minutes + 1) \div 3
                              ELSE (k - 1) * step_minutes]
WithGap(n, step_minutes) ==
    [k \in 1..n |-> IF k >= 3 THEN k * step_minutes ELSE (k - 1) * step_minutes]
TsLists(n, step_minutes) ==
    {GridTs(n, step_minutes)}
        \cup (IF n >= 2 THEN {OffGridLast(n, step_minutes)} ELSE {})
        \cup (IF n >= 3 THEN {WithGap(n, step_minutes)} ELSE {})

find_windows ==
    /\ call.fn = "none"
    /\ \E p_kw \in PowerSeries \cup BigSeries, step_minutes \in StepVals,
          max_windows \in MaxWindowsVals :
          \E need_kwh \in NeedsFor(p_kw, step_minutes), min_power_kw \in FloorsFor(p_kw),
             ts \in TsLists(Len(p_kw), step_minutes) :
              \* p_kw and min_power_kw are the caller's doubles: line 135
              \* compares them as given
              \E rnd \in Roundings(EnergyDoubts(p_kw, step_minutes, need_kwh), {}) :
                  /\ call' = [fn |-> "find_windows", ts |-> ts, p_kw |-> p_kw,
                              step_minutes |-> step_minutes, need_kwh |-> need_kwh,
                              min_power_kw |-> min_power_kw, max_windows |-> max_windows,
                              rnd |-> rnd]
                  /\ ret' = FindWindows(ts, p_kw, step_minutes, need_kwh, min_power_kw,
                                        max_windows, rnd)
    /\ UNCHANGED <<bvars, tvars>>

interp_series ==
    /\ call.fn = "none"
    /\ \E points \in SeqsUpTo({[ts |-> x, v |-> y] : x \in PointTimes, y \in PointVals}, MaxPts),
          step_minutes \in InterpSteps :
          /\ call' = [fn |-> "interp_series", points |-> points, step_minutes |-> step_minutes]
          /\ ret' = InterpSeries(points, step_minutes)
    /\ UNCHANGED <<bvars, tvars>>

MaxSrc == 2          \* samples of a source series given to a schedule operation

SrcTimes == {0, 20, 40}
SrcVals == {0, 3 * KW}
SrcSteps == {30, 60}
JobPowers == {KW, 2 * KW}
JobDurations == {30, 60}

\* rows in the order rows.sort / points.sort leave them: timestamps never
\* decrease, rows of one timestamp stay in the order they came in
SortedByTs(f) == \A k \in 1..(Len(f) - 1) : f[k].ts <= f[k + 1].ts

\* what historic_wind_power / historic_pv_kw give, clipped to the time range:
\* sorted by timestamp, every row in range kept, rows that share a timestamp
\* included (two naive PVGIS times can fall on one UTC instant)
SourceSeries ==
    {f \in SeqsUpTo({[ts |-> x, v |-> y] : x \in SrcTimes, y \in SrcVals}, MaxSrc) :
        SortedByTs(f)}

\* a source of large powers, 29219.3 kW and 28794.1 kW forty minutes later,
\* whose sample interpolated at 30 minutes is the 28900.4 kW of the job
BigSource == <<[ts |-> 0, v |-> 29219 * KW + 3], [ts |-> 40, v |-> 28794 * KW + 1]>>
BigJobPower == 28900 * KW + 4
Sources == SourceSeries \cup {BigSource}
PowersFor(wind, solar) == IF BigSource \in {wind, solar} THEN {BigJobPower} ELSE JobPowers

schedule_wind_historic ==
    /\ call.fn = "none"
    /\ \E wind \in Sources, step_minutes \in SrcSteps,
          duration_min \in JobDurations, require_power_floor \in BOOLEAN :
          \E power \in PowersFor(wind, <<>>) :
          \E rnd \in ScheduleRoundings(ResampledSingle(wind, step_minutes), Peak(wind),
                                       step_minutes, power, duration_min,
                                       require_power_floor) :
              /\ call' = [fn |-> "schedule_wind_historic", wind |-> wind, solar |-> <<>>,
                          step_minutes |-> step_minutes, power |-> power,
                          duration_min |-> duration_min,
                          require_power_floor |-> require_power_floor, rnd |-> rnd]
              /\ ret' = ScheduleSingle(wind, step_minutes, power, duration_min,
                                       require_power_floor, rnd)
    /\ UNCHANGED <<bvars, tvars>>

schedule_solar_historic ==
    /\ call.fn = "none"
    /\ \E solar \in Sources, step_minutes \in SrcSteps,
          duration_min \in JobDurations, require_power_floor \in BOOLEAN :
          \E power \in PowersFor(<<>>, solar) :
          \E rnd \in ScheduleRoundings(ResampledSingle(solar, step_minutes), Peak(solar),
                                       step_minutes, power, duration_min,
                                       require_power_floor) :
              /\ call' = [fn |-> "schedule_solar_historic", wind |-> <<>>, solar |-> solar,
                          step_minutes |-> step_minutes, power |-> power,
                          duration_min |-> duration_min,
                          require_power_floor |-> require_power_floor, rnd |-> rnd]
              /\ ret' = ScheduleSingle(solar, step_minutes, power, duration_min,
                                       require_power_floor, rnd)
    /\ UNCHANGED <<bvars, tvars>>

schedule_combined_historic ==
    /\ call.fn = "none"
    /\ \E wind \in Sources, solar \in Sources, step_minutes \in SrcSteps,
          duration_min \in JobDurations, require_power_floor \in BOOLEAN :
          \E power \in PowersFor(wind, solar) :
          \E rnd \in ScheduleRoundings(ResampledCombined(wind, solar, step_minutes),
                                       Peak(wind) + Peak(solar), step_minutes, power,
                                       duration_min, require_power_floor) :
              /\ call' = [fn |-> "schedule_combined_historic", wind |-> wind,
                          solar |-> solar, step_minutes |-> step_minutes, power |-> power,
                          duration_min |-> duration_min,
                          require_power_floor |-> require_power_floor, rnd |-> rnd]
              /\ ret' = ScheduleCombined(wind, solar, step_minutes, power, duration_min,
                                         require_power_floor, rnd)
    /\ UNCHANGED <<bvars, tvars>>

MaxNv == 3           \* samples of a series given to _nearest_value

NvTimes == {0, 10, 20, 40}
NvVals == {KW, 2 * KW, 3 * KW}
QueryTimes == {0 - 5, 0, 5, 10, 15, 20, 25, 30, 35, 40, 45}

nearest_value ==
    /\ call.fn = "none"
    /\ \E series \in {f \in SeqsUpTo({[ts |-> x, v |-> Frac(y, 1)] : x \in NvTimes, y \in NvVals},
                                      MaxNv) : SortedByTs(f)},
          x \in QueryTimes :
          /\ call' = [fn |-> "nearest_value", ts_list |-> TsOf(series),
                      value_list |-> ValuesOf(series), ts |-> x]
          /\ ret' = NearestValue(TsOf(series), ValuesOf(series), x)
    /\ UNCHANGED <<bvars, tvars>>

MaxInt == 3          \* points of a series given to _integrate_energy_kwh

IntTimes == {0, 20, 40, 60}
IntVals == {0, 2 * KW, 4 * KW, 6 * KW}

integrate_energy_kwh ==
    /\ call.fn = "none"
    /\ \E points \in SeqsUpTo({[ts |-> x, v |-> y] : x \in IntTimes, y \in IntVals}, MaxInt) :
          /\ call' = [fn |-> "integrate_energy_kwh", points |-> points]
          /\ ret' = IntegrateEnergyKwh(points)
    /\ UNCHANGED <<bvars, tvars>>

MaxGw == 4           \* samples of a forecast given to green_windows

GwTimes == {0, 600, 1200, 1790, 2400, 3000, 4200}
GwWinds == {KW, 2 * KW, 3 * KW}
GwLoads == {2 * KW}
MinBlocks == {20, 30}

\* the sequences of up to n samples of S with strictly increasing timestamps
RECURSIVE IncreasingUpTo(_, _)
IncreasingUpTo(S, n) ==
    IF n = 0 THEN {<<>>}
    ELSE LET prev == IncreasingUpTo(S, n - 1)
             Later(f) == {y \in S : f = <<>> \/ y.ts > f[Len(f)].ts}
         IN  prev \cup UNION {{Append(f, x) : x \in Later(f)} :
                                  f \in {p \in prev : Len(p) = n - 1}}

green_windows ==
    /\ call.fn = "none"
    /\ \E fc \in IncreasingUpTo({Sample(x, y) : x \in GwTimes, y \in GwWinds}, MaxGw),
          ld \in GwLoads, min_block_minutes \in MinBlocks :
          /\ call' = [fn |-> "green_windows", forecast |-> fc, load_kw |-> ld,
                      min_block_minutes |-> min_block_minutes]
          /\ ret' = GreenWindows(fc, ld, min_block_minutes)
    /\ UNCHANGED <<bvars, tvars>>

\* the module-level default instance, BatterySim()
InitDefault ==
    /\ capacity = BATTERY_CAPACITY_KWH
    /\ soc = InitSoc(BATTERY_CAPACITY_KWH, INITIAL_SOC_KWH)
    /\ pc = "idle"
    /\ calls = 0
    /\ op = "none"
    /\ forecast = <<>>
    /\ load_kw = 0
    /\ start = 0
    /\ targets_kwh = {}
    /\ i = 0
    /\ t = 0
    /\ result = <<>>
    /\ hist = NoHist
    /\ other = NoInstance
    /\ call = [fn |-> "none"]
    /\ ret = <<>>
    /\ threads = NoThreads

NextWindows == find_windows

SpecWindows == InitDefault /\ [][NextWindows]_vars

\* the window search, called directly or through a schedule operation
NextSchedule ==
    \/ find_windows
    \/ schedule_wind_historic
    \/ schedule_solar_historic
    \/ schedule_combined_historic

SpecSchedule == InitDefault /\ [][NextSchedule]_vars

\* one call on the default instance, run to its end: a loop that can take
\* its next pass takes it
NextCall ==
    \/ step
    \/ simulate_runtime
    \/ runtime_iter
    \/ simulate_until_targets

SpecFair == InitDefault /\ [][NextCall]_vars /\ WF_vars(NextCall)

NextNearest == nearest_value

SpecNearest == InitDefault /\ [][NextNearest]_vars

NextIntegrate == integrate_energy_kwh

SpecIntegrate == InitDefault /\ [][NextIntegrate]_vars

NextGreen == green_windows

SpecGreen == InitDefault /\ [][NextGreen]_vars

NextInterp == interp_series

SpecInterp == InitDefault /\ [][NextInterp]_vars

----------------------------------------------------------------------------
(* Two threads on one instance.  step has no lock and self.soc = f(self.soc) *)
(* is a load of the attribute, a computation and a store: each load and     *)
(* each store is one atomic action, and a thread switch may fall between    *)
(* any two of them.  A thread's registers and locals are its own.           *)

RaceInstances == {<<BATTERY_CAPACITY_KWH, INITIAL_SOC_KWH>>, <<KWH, 12 * KWH>>}
RaceGens == {0, 3 * KW}
RaceLoads == {0, 2 * LKW}
RaceForecasts == {<<>>, <<Sample(0, 3 * KW)>>, <<Sample(0, 3 * KW), Sample(20, 0)>>}

\* line 19: min(self.capacity, self.soc + max(0.0, gen_kw) * CHARGE_EFF * h),
\* of the value loaded from self.soc
Line19(cap, loaded, gen_kw, dt) == Min(cap, loaded + ChargeOf(gen_kw, dt))

\* line 20: max(0.0, self.soc - max(0.0, load_kw) * h / DISCHARGE_EFF),
\* of the value loaded from self.soc
Line20(loaded, ld, dt) == Max(0, loaded - DischargeOf(ld, dt))

\* a load that waits while the other thread holds a loaded value it has
\* still to store (a lock around each assignment)
MayLoadLocked(ths, th) ==
    /\ ths[th].pc \in {"line19_load", "line20_load"}
    /\ \A o \in Threads \ {th} : ths[o].pc \notin {"line19_store", "line20_store"}

\* lines 19, 20: the thread is at the load of self.soc of an assignment;
\* nothing else is asked (no lock is taken anywhere in the class)
MayLoad(ths, th) == ths[th].pc \in {"line19_load", "line20_load"}

InitRace ==
    /\ \E b \in RaceInstances :
          /\ capacity = b[1]
          /\ soc = InitSoc(b[1], b[2])
          /\ hist = [NoHist EXCEPT !.soc0 = InitSoc(b[1], b[2])]
    /\ pc = "idle"
    /\ calls = 0
    /\ op = "none"
    /\ forecast = <<>>
    /\ load_kw = 0
    /\ start = 0
    /\ targets_kwh = {}
    /\ i = 0
    /\ t = 0
    /\ result = <<>>
    /\ other = NoInstance
    /\ call = [fn |-> "none"]
    /\ ret = <<>>
    /\ threads = NoThreads

\* what a thread leaves alone: everything but self.soc and its own entry
rvars == <<capacity, pc, calls, op, forecast, load_kw, start, targets_kwh,
           i, t, result, hist, other>>

\* thread th calls step(gen_kw, load_kw, dt)
thread_step(th) ==
    /\ threads[th].pc = "idle"
    /\ \E g \in RaceGens, l \in RaceLoads :
          threads' = [threads EXCEPT ![th] =
                         [IdleThread EXCEPT !.op = "step", !.pc = "line19_load",
                                            !.gen_kw = g, !.load_kw = l, !.dt = SIM_STEP]]
    /\ UNCHANGED <<soc, rvars, fvars>>

\* thread th calls simulate_runtime(forecast, load_kw, start) (lines 58-59:
\* start_soc = self.soc is a load)
thread_simulate_runtime(th) ==
    /\ threads[th].pc = "idle"
    /\ \E f \in RaceForecasts, l \in RaceLoads, st \in StartTimes :
          threads' = [threads EXCEPT ![th] =
                         [IdleThread EXCEPT !.op = "simulate_runtime", !.pc = "line19_load",
                                            !.forecast = f, !.load_kw = l, !.dt = SIM_STEP,
                                            !.start = st, !.t = st, !.start_soc = soc]]
    /\ UNCHANGED <<soc, rvars, fvars>>

\* the load of self.soc on the right-hand side of line 19 or 20; in
\* simulate_runtime the pass begins with the cursor and gen_kw (lines 61-63),
\* which touch the thread's locals only
thread_load(th) ==
    /\ MayLoad(threads, th)
    /\ LET me == threads[th]
           i2 == AdvanceCursor(me.forecast, me.i, me.t)
       IN  threads' = [threads EXCEPT ![th] =
               IF me.pc = "line20_load"
               THEN [me EXCEPT !.reg = soc, !.pc = "line20_store"]
               ELSE IF me.op = "simulate_runtime"
               THEN [me EXCEPT !.reg = soc, !.pc = "line19_store", !.i = i2,
                               !.gen_kw = GenAt(me.forecast, i2)]
               ELSE [me EXCEPT !.reg = soc, !.pc = "line19_store"]]
    /\ UNCHANGED <<soc, rvars, fvars>>

\* the store to self.soc of line 19 or 20; after line 20 step returns, and
\* simulate_runtime goes on with t += SIM_STEP (line 65)
thread_store(th) ==
    /\ threads[th].pc \in {"line19_store", "line20_store"}
    /\ LET me == threads[th]
       IN  IF me.pc = "line19_store"
           THEN /\ soc' = Line19(capacity, me.reg, me.gen_kw, me.dt)
                /\ threads' = [threads EXCEPT ![th] = [me EXCEPT !.pc = "line20_load"]]
           ELSE /\ soc' = Line20(me.reg, me.load_kw, me.dt)
                /\ threads' = [threads EXCEPT ![th] =
                       IF me.op = "step"
                       THEN [me EXCEPT !.pc = "done"]
                       ELSE [me EXCEPT !.pc = "line66_load", !.t = me.t + SIM_STEP]]
    /\ UNCHANGED <<rvars, fvars>>

\* simulate_runtime, lines 66-77: the load of self.soc for the depletion
\* test, then the exhaustion test, then the next pass
thread_check(th) ==
    /\ threads[th].pc = "line66_load"
    /\ LET me == threads[th]
           estimate(depleted) == [load_kw |-> me.load_kw, start_soc_kwh |-> me.start_soc,
                                  runtime_minutes |-> me.t - me.start, end_time |-> me.t,
                                  depleted |-> depleted]
       IN  \E below \in BelowOrAbove(soc) :
               threads' = [threads EXCEPT ![th] =
                   IF Depleted(soc, below)
                   THEN [me EXCEPT !.result = estimate(TRUE), !.pc = "done"]
                   ELSE IF me.i >= Len(me.forecast) - 1
                   THEN [me EXCEPT !.result = estimate(FALSE), !.pc = "done"]
                   ELSE [me EXCEPT !.pc = "line19_load"]]
    /\ UNCHANGED <<soc, rvars, fvars>>

NextRace ==
    \E th \in Threads :
        \/ thread_step(th)
        \/ thread_simulate_runtime(th)
        \/ thread_load(th)
        \/ thread_store(th)
        \/ thread_check(th)

SpecRace == InitRace /\ [][NextRace]_vars

----------------------------------------------------------------------------
(* Properties *)

\* C1: a BatterySim with capacity > 0 has 0 <= soc <= capacity after
\* construction and at the end of (and all through) every step,
\* simulate_runtime and simulate_until_targets call, whatever gen_kw and
\* load_kw are.
C1_SocWithinCapacity == capacity > 0 => (0 <= soc /\ soc <= capacity)

\* C1 witness: a later call on the instance has returned, its last step's
\* charge was cut by the capacity cap, and a negative load was clamped.
C1_Witness ==
    /\ pc = "done" /\ calls >= 1 /\ hist.steps >= 1
    /\ hist.pre + ChargeOf(hist.gen, hist.dt) > capacity
    /\ hist.ld < 0
    /\ soc = capacity

\* C2: after every step, soc = max(0, min(capacity, soc_before +
\* max(0, gen_kw) * charge_eff * h) - max(0, load_kw) * h / discharge_eff);
\* when the charge is cut by the cap, the full load is subtracted from the
\* capacity.
C2_StepChargesThenDischarges ==
    hist.steps >= 1 =>
        LET charge == ChargeOf(hist.gen, hist.dt)
            discharge == DischargeOf(hist.ld, hist.dt)
        IN  /\ soc = Max(0, Min(capacity, hist.pre + charge) - discharge)
            /\ hist.pre + charge > capacity => soc = Max(0, capacity - discharge)

\* C2 witness: a step whose charge was cut by the cap and whose load was then
\* subtracted in full, ending elsewhere than netting before clamping would.
C2_Witness ==
    /\ hist.steps >= 1
    /\ hist.pre + ChargeOf(hist.gen, hist.dt) > capacity
    /\ hist.ld > 0
    /\ soc = capacity - DischargeOf(hist.ld, hist.dt)
    /\ soc # StepNetting(capacity, hist.pre, hist.gen, hist.ld, hist.dt)

IsFindWindows == call.fn = "find_windows"
NonNegative(p_kw) == \A k \in 1..Len(p_kw) : p_kw[k] >= 0

\* the smallest j in (a, n] with pref[j] - pref[a] >= need_kwh, by a linear
\* scan over the energies themselves
LinearJ(p_kw, step_minutes, need_kwh, a) ==
    LET pref == Prefix(p_kw, step_minutes)
        S == {j \in (a + 1)..Len(p_kw) : pref[j + 1] - pref[a + 1] >= need_kwh}
    IN  IF S = {} THEN None ELSE Some(CHOOSE j \in S : \A x \in S : j <= x)

\* the index of the sample a window starts at
StartIndex(w) == CHOOSE a \in 0..(Len(call.ts) - 1) : call.ts[a + 1] = w.start
WindowStarts == {StartIndex(ret[k]) : k \in 1..Len(ret)}

\* the start indices the loop looked at: all of them, or those up to the
\* window after which it broke off
Visited ==
    IF ret # <<>> /\ Len(ret) >= call.max_windows
    THEN 0..StartIndex(ret[Len(ret)])
    ELSE 0..(Len(call.ts) - 1)

\* some sample of [a, b) lies below the floor
FloorBroken(a, b) ==
    \E F \in call.min_power_kw : \E k \in a..(b - 1) : call.p_kw[k + 1] < F

\* C3: for non-negative power samples, every window emitted for start index i
\* has i + steps equal to the smallest j in (i, n] with pref[j] - pref[i] >=
\* need_kwh (the binary search agrees with a linear scan), and a start index
\* the loop looked at has no window only when no such j exists (or the floor
\* rejects it).  The doubles of line 128 refuse an energy equal to need_kwh
\* once the prefix sums are large: the window then ends later than the
\* smallest such j, or the start index is skipped though a j exists.
C3_BinarySearchIsLinearScan ==
    (IsFindWindows /\ NonNegative(call.p_kw)) =>
        /\ \A k \in 1..Len(ret) :
              LinearJ(call.p_kw, call.step_minutes, call.need_kwh, StartIndex(ret[k]))
                  = Some(StartIndex(ret[k]) + ret[k].steps)
        /\ \A a \in Visited \ WindowStarts :
              LET j == LinearJ(call.p_kw, call.step_minutes, call.need_kwh, a)
              IN  j = None \/ \E b \in j : FloorBroken(a, b)

\* C3 witness: a non-negative series with a window of three or more steps,
\* found below the first midpoint of its search, and a later start index
\* skipped because the rest of the series cannot supply the energy.
C3_Witness ==
    /\ IsFindWindows /\ NonNegative(call.p_kw)
    /\ call.min_power_kw = None
    /\ \E k \in 1..Len(ret) : ret[k].steps >= 3
    /\ \E k \in 1..Len(ret) :
          StartIndex(ret[k]) + ret[k].steps < (StartIndex(ret[k]) + 1 + Len(call.ts)) \div 2
    /\ \E a \in Visited \ WindowStarts :
          LinearJ(call.p_kw, call.step_minutes, call.need_kwh, a) = None

\* a window that ends after the smallest j whose energy suffices, the
\* energy up to that j being exactly need_kwh
C3_LaterThanSmallest ==
    /\ IsFindWindows /\ NonNegative(call.p_kw) /\ call.min_power_kw = None
    /\ \E k \in 1..Len(ret) :
          \E j \in LinearJ(call.p_kw, call.step_minutes, call.need_kwh, StartIndex(ret[k])) :
              j < StartIndex(ret[k]) + ret[k].steps

\* a start index skipped though the rest of the series holds exactly need_kwh
C3_SkippedThoughSupplied ==
    /\ IsFindWindows /\ NonNegative(call.p_kw) /\ call.min_power_kw = None
    /\ \E a \in Visited \ WindowStarts :
          LinearJ(call.p_kw, call.step_minutes, call.need_kwh, a) = Some(Len(call.ts))

\* C4: with a floor F, no emitted window holds a sample below F, and every
\* emitted window has min_kw >= F.
C4_FloorRespected ==
    IsFindWindows =>
        \A F \in call.min_power_kw : \A k \in 1..Len(ret) :
            /\ ret[k].min_kw >= F
            /\ \A m \in StartIndex(ret[k])..(StartIndex(ret[k]) + ret[k].steps - 1) :
                  call.p_kw[m + 1] >= F

\* C4 witness: a floor is set, a window of two or more steps passed it, and a
\* start index with enough energy was rejected for a later sample below it.
C4_Witness ==
    /\ IsFindWindows /\ call.min_power_kw # None
    /\ \E k \in 1..Len(ret) : ret[k].steps >= 2
    /\ \E a \in Visited \ WindowStarts :
          \E b \in LinearJ(call.p_kw, call.step_minutes, call.need_kwh, a) :
              /\ FloorBroken(a, b)
              /\ \A F \in call.min_power_kw : call.p_kw[a + 1] >= F

IsInterp == call.fn = "interp_series"
Original(pt) == [ts |-> pt.ts, v |-> Frac(pt.v, 1)]

\* C5: for strictly increasing timestamps (any length >= 1) the first output
\* element is the first input sample and the last output element is the last
\* input sample, aligned to the step grid or not.
C5_EndpointsPreserved ==
    (IsInterp /\ call.points # <<>> /\ StrictlyIncreasingTs(call.points)) =>
        /\ ret # <<>>
        /\ ret[1] = Original(call.points[1])
        /\ ret[Len(ret)] = Original(call.points[Len(call.points)])

\* C5 witness: three samples, the last one off the step grid, resampled to
\* four or more points.
C5_Witness ==
    /\ IsInterp /\ Len(call.points) = 3 /\ StrictlyIncreasingTs(call.points)
    /\ (call.points[3].ts - call.points[2].ts) % call.step_minutes # 0
    /\ Len(ret) >= 4
    /\ ret[Len(ret)] = Original(call.points[3])

\* C6: for strictly increasing timestamps, consecutive output timestamps are
\* exactly step_minutes apart, except that the gap before the final preserved
\* sample may be shorter.
C6_FixedSpacing ==
    (IsInterp /\ StrictlyIncreasingTs(call.points)) =>
        \A k \in 1..(Len(ret) - 1) :
            IF k = Len(ret) - 1
            THEN ret[k + 1].ts - ret[k].ts <= call.step_minutes
            ELSE ret[k + 1].ts - ret[k].ts = call.step_minutes

Returned(name) == pc = "done" /\ op = name

\* the call ended with an exception instead of a value
Raised == "raised" \in DOMAIN result

\* the value returned is a mapping with an entry under every requested target
MappingOfTargets == ~Raised /\ targets_kwh \subseteq DOMAIN result

\* C7: simulate_until_targets returns eta = start, reachable = true for every
\* requested target at or below the soc at call time, and takes no step
\* (leaves soc unchanged) when all requested targets are at or below it.
C7_ReachedTargetsImmediate ==
    Returned("simulate_until_targets") =>
        /\ MappingOfTargets
        /\ \A x \in targets_kwh :
              x <= hist.soc0 => result[x] = [eta |-> Some(start), reachable |-> TRUE]
        /\ (\A x \in targets_kwh : x <= hist.soc0) => (hist.steps = 0 /\ soc = hist.soc0)

\* C8: when simulate_until_targets returns with the forecast exhausted, every
\* requested target still unmet is returned with reachable = false and
\* eta = null; stated for the empty forecast, which is exhausted from the
\* start and generates nothing, so that the unmet targets are those above
\* the soc at call time.
C8_UnmetTargetsUnreachable ==
    (Returned("simulate_until_targets") /\ forecast = <<>>) =>
        /\ MappingOfTargets
        /\ \A x \in targets_kwh :
              x > hist.soc0 => result[x] = [eta |-> None, reachable |-> FALSE]

\* L * h / eta for one simulation step, in energy units (L in load units)
DrainPerStep(l) ==
    l * ((SIM_STEP * DISCHARGE_EFF_DEN * (KWH \div LKW)) \div (60 * DISCHARGE_EFF_NUM))

ZeroGeneration == \A k \in 1..Len(forecast) : forecast[k].wind_kw = 0

\* runtime_minutes in simulation steps
RuntimeSteps == result.runtime_minutes \div SIM_STEP

\* |runtime - S0 / (L / eta)| <= one simulation step
WithinOneStep ==
    LET d == RuntimeSteps * DrainPerStep(load_kw) - hist.soc0
    IN  d <= DrainPerStep(load_kw) /\ 0 - d <= DrainPerStep(load_kw)

\* |runtime - max(0, S0 - 1e-6 kWh) / (L / eta)| <= one simulation step
WithinOneStepOfThreshold ==
    LET d == RuntimeSteps * DrainPerStep(load_kw) - Max(0, hist.soc0 - MICRO)
    IN  d <= DrainPerStep(load_kw) /\ 0 - d <= DrainPerStep(load_kw)

\* the charge left after k steps of discharge without generation
Left(k) == Max(0, hist.soc0 - k * DrainPerStep(load_kw))

\* the forecast's last timestamp is at or after start + S0 / (L / eta):
\* (last - start) * L * h / eta >= S0 * SIM_STEP, without the large products
ReachesDepletion ==
    LET dt == forecast[Len(forecast)].ts - start
        d == DrainPerStep(load_kw)
    IN  /\ dt >= 0
        /\ (dt \div SIM_STEP) * d + ((dt % SIM_STEP) * d) \div SIM_STEP >= hist.soc0

\* C9, as claimed: with zero generation and load L > 0, simulate_runtime
\* returns depleted = true with a runtime within one simulation step of
\* S0 / (L / eta) hours.
C9_AlwaysDepleted ==
    (Returned("simulate_runtime") /\ ZeroGeneration /\ load_kw > 0) =>
        (result.depleted /\ WithinOneStep)

\* C9, amended: with zero generation and load L > 0, simulate_runtime
\* returns depleted = true at the end of the first simulation step that
\* leaves max(0, S0 - k * L * h / eta) at or below 1e-6 kWh (a charge of
\* exactly 1e-6 kWh may be read as above the threshold, and the return is
\* then one step later), unless the forecast is exhausted first.  The
\* runtime is within one step of max(0, S0 - 1e-6 kWh) / (L / eta) hours, and
\* within one step of S0 / (L / eta) hours when one step discharges at least
\* 1e-6 kWh.  A return with depleted = false has the cursor on the last
\* sample (or an empty forecast), and the return is depleted = true whenever
\* the forecast has two or more samples and its last timestamp is at or
\* after start + S0 / (L / eta).  Capacity 10 kWh, soc 5 kWh, load 2 kW, eta
\* 0.95 deplete at runtime_minutes = 150, the first multiple of the
\* 10-minute step past 142.5 minutes.
C9_DepletedUnlessExhausted ==
    (Returned("simulate_runtime") /\ ZeroGeneration /\ load_kw > 0) =>
        /\ result.runtime_minutes = RuntimeSteps * SIM_STEP
        /\ RuntimeSteps >= 1
        /\ result.depleted =>
              /\ Left(RuntimeSteps) <= MICRO
              /\ \A k \in 1..(RuntimeSteps - 1) : Left(k) >= MICRO
              /\ WithinOneStepOfThreshold
              /\ DrainPerStep(load_kw) >= MICRO => WithinOneStep
        /\ ~result.depleted =>
              /\ i >= Len(forecast) - 1
              /\ Left(RuntimeSteps) >= MICRO
        /\ (Len(forecast) >= 2 /\ ReachesDepletion) => result.depleted
        /\ (/\ capacity = 10 * KWH /\ hist.soc0 = 5 * KWH /\ load_kw = 2 * LKW
            /\ result.depleted)
              => result.runtime_minutes = 150

\* C9 witness: the example has run to depletion.
C9_Witness ==
    /\ Returned("simulate_runtime") /\ ZeroGeneration
    /\ capacity = 10 * KWH /\ hist.soc0 = 5 * KWH /\ load_kw = 2 * LKW
    /\ result.depleted /\ result.runtime_minutes = 150
    /\ result.start_soc_kwh = 5 * KWH

\* a load of 1e-6 kW is returned as depleted at the end of the first step
\* from a soc of 30 units, three steps of discharge above zero
C9_EarlyBelowThreshold ==
    /\ Returned("simulate_runtime") /\ ZeroGeneration
    /\ hist.soc0 = 30 /\ load_kw = 1
    /\ result.depleted /\ result.runtime_minutes = SIM_STEP

\* a soc of exactly 1e-6 kWh after two steps, read as above the threshold:
\* the return comes at the end of the third step
C9_TieReadAbove ==
    /\ Returned("simulate_runtime") /\ ZeroGeneration
    /\ load_kw = 2 * LKW /\ Left(2) = MICRO
    /\ result.depleted /\ RuntimeSteps = 3

\* the same soc read as at the threshold: the return comes after two steps
C9_TieReadBelow ==
    /\ Returned("simulate_runtime") /\ ZeroGeneration
    /\ load_kw = 2 * LKW /\ Left(2) = MICRO
    /\ result.depleted /\ RuntimeSteps = 2

\* the source of large powers resampled at 30 minutes for a job of one hour
\* with the floor set: the sample interpolated at 30 minutes is the floor
IsBigJob ==
    /\ call.fn = "schedule_solar_historic" /\ call.solar = BigSource
    /\ call.step_minutes = 30 /\ call.duration_min = 60 /\ call.require_power_floor

\* that sample read below the floor (28900.399999999998 against 28900.4):
\* the one window there is, from the first sample on, is refused
FloorTieReadBelow == IsBigJob /\ call.rnd.low # {} /\ ret.windows = <<>>

\* that sample read at the floor: the window is returned
FloorTieReadAt == IsBigJob /\ call.rnd.low = {} /\ Len(ret.windows) = 1

\* C10: for every input and every max_windows >= 0, _find_windows returns at
\* most max_windows windows.
C10_AtMostMaxWindows ==
    (IsFindWindows /\ call.max_windows >= 0) => Len(ret) <= call.max_windows

\* the start indices that satisfy the energy requirement (some j in (a, n]
\* has pref[j] - pref[a] >= need_kwh) and, at the smallest such j, the floor
Accepted ==
    {a \in 0..(Len(call.ts) - 1) :
        \E b \in LinearJ(call.p_kw, call.step_minutes, call.need_kwh, a) : ~FloorBroken(a, b)}

StartsIncrease ==
    \A k \in 1..(Len(ret) - 1) : ret[k].start < ret[k + 1].start

NoAcceptedStartMissing ==
    /\ WindowStarts \subseteq Accepted
    /\ \A a \in Accepted \cap Visited : a \in WindowStarts

\* C11, as claimed: the windows _find_windows returns are in strictly
\* increasing order of start index, at most one per start index, and they are
\* the first accepted start indices: no start index below the last returned
\* one that satisfies the energy requirement (and the floor, if set) is
\* missing, and none is missing at all when the loop ran to the end.
C11_FirstAcceptedStarts ==
    IsFindWindows => (StartsIncrease /\ NoAcceptedStartMissing)

\* C11, for the non-negative power samples the search is meant for: the
\* windows are in strictly increasing order of start index, at most one per
\* start index, and they are the first accepted start indices, none below
\* the last returned one missing.  (On a signed series the prefix sums are
\* not monotone and the search misses start indices for that reason alone.)
C11_FirstAcceptedStartsNonNegative ==
    IsFindWindows =>
        /\ StartsIncrease
        /\ NonNegative(call.p_kw) => NoAcceptedStartMissing

\* the order of the windows, which holds for every series
C11_StartsIncrease == IsFindWindows => StartsIncrease

\* a non-negative series with an accepted start index that is missing from
\* the result though the loop came past it
C11_AcceptedStartMissing ==
    /\ IsFindWindows /\ NonNegative(call.p_kw)
    /\ \E a \in (Accepted \cap Visited) \ WindowStarts : TRUE

\* consecutive timestamps are step_minutes apart
FixedStep == \A k \in 1..(Len(call.ts) - 1) : call.ts[k + 1] - call.ts[k] = call.step_minutes

\* a call on a fixed-step constant series of power G > 0 that can supply the
\* requirement, with no floor above G
ConstantSupply ==
    /\ IsFindWindows /\ call.p_kw # <<>> /\ call.p_kw[1] > 0
    /\ FixedStep
    /\ \A k \in 1..Len(call.p_kw) : call.p_kw[k] = call.p_kw[1]
    /\ Len(call.p_kw) * call.p_kw[1] * call.step_minutes >= call.need_kwh
    /\ \A F \in call.min_power_kw : F <= call.p_kw[1]

\* ceil(N / (G * h))
CeilSteps == (call.need_kwh + call.p_kw[1] * call.step_minutes - 1)
                 \div (call.p_kw[1] * call.step_minutes)

\* 4 kW at a 5-minute step with a requirement of 2 kWh
IsExample12 ==
    call.p_kw[1] = 4 * KW /\ call.step_minutes = 5 /\ call.need_kwh = 2 * WKWH

\* C12, as claimed: for a constant series of power G > 0 and a requirement N
\* the series can supply, the first window starts at the first sample and
\* has steps = ceil(N / (G * h)), so steps * h is within one grid step of
\* N / G hours; 4 kW at a 5-minute step with N = 2 kWh gives end - start of
\* exactly 30 minutes.
C12_ConstantSeriesCeil ==
    ConstantSupply =>
        /\ ret # <<>>
        /\ ret[1].start = call.ts[1]
        /\ ret[1].steps = CeilSteps
        /\ IsExample12 => ret[1].end - ret[1].start = 30

\* C12, for a requirement N > 0 (the search never returns a window shorter
\* than one step, which is what N = 0 gets): the first window starts at the
\* first sample and has steps = ceil(N / (G * h)).
C12_ConstantSeriesCeilPositiveNeed ==
    (ConstantSupply /\ call.need_kwh > 0) =>
        /\ ret # <<>>
        /\ ret[1].start = call.ts[1]
        /\ ret[1].steps = CeilSteps
        /\ IsExample12 => ret[1].end - ret[1].start = 30

\* the example, on a series longer than its first window
C12_Example ==
    /\ ConstantSupply /\ IsExample12
    /\ Len(call.p_kw) > 6
    /\ ret # <<>> /\ ret[1].steps = 6 /\ ret[1].start = 0 /\ ret[1].end = 30

\* a first window one step longer than ceil(N / (G * h)), N > 0
C12_OneStepLonger ==
    /\ ConstantSupply /\ call.need_kwh > 0
    /\ ret # <<>> /\ ret[1].steps = CeilSteps + 1


IsSchedule ==
    call.fn \in {"schedule_wind_historic", "schedule_solar_historic",
                 "schedule_combined_historic"}

\* C13: a window search over a series of fewer than 2 samples returns no
\* window: a schedule operation whose source series (every source, for the
\* combined one) have fewer than 2 samples, or whose searched series has
\* fewer than 2 samples, returns an empty window list and a reason, and
\* _find_windows itself returns an empty list for a series of 0 or 1 samples.
C13_NoWindowFromFewSamples ==
    /\ (IsSchedule /\ Len(call.wind) < 2 /\ Len(call.solar) < 2) =>
           (ret.windows = <<>> /\ ret.reason # None)
    /\ (IsSchedule /\ Len(ret.tot_ts) < 2) =>
           (ret.windows = <<>> /\ ret.reason # None)
    /\ (IsFindWindows /\ Len(call.ts) < 2) => ret = <<>>

\* the series [(00:00, 0 kW), (01:00, 10 kW)]
IsExample14 ==
    call.points = <<[ts |-> 0, v |-> 0], [ts |-> 60, v |-> 10 * KW]>>

\* C14: every sample _interp_series emits strictly between two consecutive
\* original samples (t0, v0), (t1, v1), t0 < t1, has the value
\* v0 + (t - t0) / (t1 - t0) * (v1 - v0); for [(00:00, 0 kW), (01:00, 10 kW)]
\* and a step that divides 30 minutes the output holds (00:30, 5 kW).
C14_LinearInterpolation ==
    (IsInterp /\ StrictlyIncreasingTs(call.points)) =>
        /\ \A m \in 1..Len(ret) : \A k \in 1..(Len(call.points) - 1) :
              LET t0 == call.points[k].ts
                  v0 == call.points[k].v
                  t1 == call.points[k + 1].ts
                  v1 == call.points[k + 1].v
              IN  (t0 < ret[m].ts /\ ret[m].ts < t1) =>
                      ret[m].v[1] * (t1 - t0)
                          = ret[m].v[2] * (v0 * (t1 - t0) + (ret[m].ts - t0) * (v1 - v0))
        /\ (IsExample14 /\ 30 % call.step_minutes = 0) =>
              \E m \in 1..Len(ret) :
                  ret[m].ts = 30 /\ ret[m].v[1] = 5 * KW * ret[m].v[2]

\* C14 witness: the example at a 15-minute step, resampled to five samples
\* with 2.5 kW at 00:15 and 5 kW at 00:30.
C14_Witness ==
    /\ IsInterp /\ IsExample14 /\ call.step_minutes = 15
    /\ Len(ret) = 5
    /\ ret[2].ts = 15 /\ 2 * ret[2].v[1] = 5 * KW * ret[2].v[2]
    /\ ret[3].ts = 30 /\ ret[3].v[1] = 5 * KW * ret[3].v[2]

IsNearest == call.fn = "nearest_value"

\* |ts_list[k] - t|
Distance(k) == Abs(call.ts_list[k] - call.ts)

\* C15: for strictly increasing timestamps _nearest_value returns the value
\* of a sample minimising |ts - t|, the earlier one when two samples are
\* equally close, the first value when t is before the first timestamp, the
\* last value when t is after the last, and 0.0 when the series is empty.
C15_NearestEarlierOnTie ==
    (IsNearest /\ \A j \in 1..(Len(call.ts_list) - 1) : call.ts_list[j] < call.ts_list[j + 1]) =>
        LET n == Len(call.ts_list)
        IN  /\ n = 0 => ret = Frac(0, 1)
            /\ n > 0 =>
                  /\ \E k \in 1..n :
                        /\ ret = call.value_list[k]
                        /\ \A m \in 1..n :
                              /\ Distance(k) <= Distance(m)
                              /\ Distance(k) = Distance(m) => k <= m
                  /\ call.ts < call.ts_list[1] => ret = call.value_list[1]
                  /\ call.ts > call.ts_list[n] => ret = call.value_list[n]

\* C15 witness: t halfway between the second and third samples of a series
\* of three different values, answered with the second.
C15_Witness ==
    /\ IsNearest /\ Len(call.ts_list) = 3
    /\ Distance(2) = Distance(3) /\ Distance(2) > 0
    /\ Cardinality({call.value_list[k] : k \in 1..3}) = 3
    /\ ret = call.value_list[2]

IsIntegrate == call.fn = "integrate_energy_kwh"

\* the sum of f over a finite set of indices
RECURSIVE SumOver(_, _)
SumOver(S, f) ==
    IF S = {} THEN 0
    ELSE LET k == CHOOSE x \in S : TRUE
         IN  f[k] + SumOver(S \ {k}, f)

\* twice the energy of the pairs with a positive time difference
PositivePairs ==
    LET pts == call.points
        P == {k \in 1..(Len(pts) - 1) : pts[k + 1].ts > pts[k].ts}
    IN  SumOver(P, [k \in P |-> (pts[k].v + pts[k + 1].v) * (pts[k + 1].ts - pts[k].ts)])

\* the ramp from 0 to RampP over RampT minutes, and a series sampled from
\* it, from its start to its end, at increasing times
RampP == 6 * KW
RampT == 3 * 20
SampledFromRamp ==
    /\ Len(call.points) >= 2 /\ StrictlyIncreasingTs(call.points)
    /\ call.points[1].ts = 0 /\ call.points[Len(call.points)].ts = RampT
    /\ \A k \in 1..Len(call.points) : call.points[k].v * RampT = RampP * call.points[k].ts

\* C16: _integrate_energy_kwh returns the sum over the consecutive pairs
\* with a positive time difference of 0.5 * (p0 + p1) * dh (the other pairs
\* add nothing), 0.0 for fewer than 2 points, and P * T / 2 for a series
\* sampled at increasing times from a linear ramp from 0 to P over T hours.
C16_TrapezoidSum ==
    IsIntegrate =>
        /\ 2 * ret[1] = ret[2] * PositivePairs
        /\ Len(call.points) < 2 => ret[1] = 0
        /\ SampledFromRamp => 2 * ret[1] = ret[2] * RampP * RampT

\* C16 witness: the ramp sampled at three unevenly spaced times.
C16_Witness ==
    /\ IsIntegrate /\ SampledFromRamp
    /\ Len(call.points) = 3 /\ call.points[2].ts = 20
    /\ ret = Frac(RampP * RampT, 2)

IsGreen == call.fn = "green_windows"

MarginOk(k) == call.forecast[k].wind_kw - call.load_kw >= 0

\* the maximal runs of consecutive samples with margin >= 0, as <<a, b>>
MaximalRuns ==
    LET n == Len(call.forecast)
    IN  {run \in (1..n) \X (1..n) :
            /\ run[1] <= run[2]
            /\ \A k \in run[1]..run[2] : MarginOk(k)
            /\ run[1] = 1 \/ ~MarginOk(run[1] - 1)
            /\ run[2] = n \/ ~MarginOk(run[2] + 1)}

\* where a run is closed: the timestamp of the sample that ends it, or of
\* the final sample when it is still open at the end of the series
RunEnd(run) ==
    IF run[2] < Len(call.forecast) THEN call.forecast[run[2] + 1].ts
    ELSE call.forecast[Len(call.forecast)].ts

IsWindowOf(w, run) == w.start = call.forecast[run[1]].ts /\ w.end = RunEnd(run)

\* floor of the run's duration in minutes >= min_block_minutes
LongEnough(run) ==
    RunEnd(run) - call.forecast[run[1]].ts >= 60 * call.min_block_minutes

\* C17: green_windows emits a window for a maximal run of consecutive
\* samples with margin = wind_kw - load_kw >= 0 if and only if the run's
\* duration end - start, in whole minutes (floor), is >= min_block_minutes,
\* and emits nothing else; a 40-minute run with min_block_minutes = 30 is
\* emitted and a separate 20-minute run is not; empty input yields no
\* windows.
C17_RunsOfMinBlock ==
    IsGreen =>
        /\ call.forecast = <<>> => ret = <<>>
        /\ \A run \in MaximalRuns :
              LongEnough(run) <=> \E k \in 1..Len(ret) : IsWindowOf(ret[k], run)
        /\ \A k \in 1..Len(ret) : \E run \in MaximalRuns : IsWindowOf(ret[k], run)
        /\ Len(ret) = Cardinality({run \in MaximalRuns : LongEnough(run)})

\* C17 witness: min_block_minutes = 30, a run of 40 minutes emitted and a
\* later, separate run of 20 minutes left out.
C17_Witness ==
    /\ IsGreen /\ call.min_block_minutes = 30
    /\ Len(ret) = 1 /\ ret[1].end - ret[1].start = 40 * 60
    /\ \E run \in MaximalRuns :
          /\ RunEnd(run) - call.forecast[run[1]].ts = 20 * 60
          /\ call.forecast[run[1]].ts > ret[1].end

IsCombined == call.fn = "schedule_combined_historic" /\ ret.reason = None

TimesOf(series) == {series[k].ts : k \in 1..Len(series)}

\* the sample of a series closest to x, the earlier one of two equally close
ClosestIndex(series, x) ==
    CHOOSE k \in 1..Len(series) : \A m \in 1..Len(series) :
        /\ Abs(series[k].ts - x) <= Abs(series[m].ts - x)
        /\ Abs(series[k].ts - x) = Abs(series[m].ts - x) => k <= m

\* nearest(series, x), 0 for an empty source
ClosestValue(series, x) ==
    IF series = <<>> THEN Frac(0, 1) ELSE series[ClosestIndex(series, x)].v

SameNumber(x, y) == x[1] * y[2] = y[1] * x[2]

\* C18: the combined series of schedule_combined_historic has as timeline
\* the set union of the timestamps of the two resampled source series,
\* strictly increasing with no duplicates, and at each of its timestamps the
\* value nearest(wind, t) + nearest(solar, t), an empty source giving 0.
C18_UnionTimelineNearestSum ==
    IsCombined =>
        /\ ret.w = (IF call.wind = <<>> THEN <<>> ELSE InterpSeries(call.wind, call.step_minutes))
        /\ ret.s = (IF call.solar = <<>> THEN <<>> ELSE InterpSeries(call.solar, call.step_minutes))
        /\ {ret.tot_ts[k] : k \in 1..Len(ret.tot_ts)} = TimesOf(ret.w) \cup TimesOf(ret.s)
        /\ \A k \in 1..(Len(ret.tot_ts) - 1) : ret.tot_ts[k] < ret.tot_ts[k + 1]
        /\ Len(ret.tot_kw) = Len(ret.tot_ts)
        /\ \A k \in 1..Len(ret.tot_kw) :
              LET a == ClosestValue(ret.w, ret.tot_ts[k])
                  b == ClosestValue(ret.s, ret.tot_ts[k])
              IN  SameNumber(ret.tot_kw[k], Frac(a[1] * b[2] + b[1] * a[2], a[2] * b[2]))

\* C18 witness: two sources on different timelines, a unified timestamp
\* that only the wind series has and that lies halfway between two solar
\* samples, both sources adding to the total there.
C18_Witness ==
    /\ IsCombined /\ Len(ret.w) >= 2 /\ Len(ret.s) >= 2
    /\ TimesOf(ret.s) \ TimesOf(ret.w) # {}
    /\ \E k \in 1..Len(ret.tot_ts) :
          LET x == ret.tot_ts[k]
              a == ClosestValue(ret.w, x)
              b == ClosestValue(ret.s, x)
          IN  /\ x \in TimesOf(ret.w) \ TimesOf(ret.s)
              /\ \E m \in 1..(Len(ret.s) - 1) :
                    /\ x - ret.s[m].ts = ret.s[m + 1].ts - x
                    /\ ret.s[m].v # ret.s[m + 1].v
              /\ a[1] > 0 /\ b[1] > 0
              /\ ret.tot_kw[k][1] * a[2] > a[1] * ret.tot_kw[k][2]

\* C19: invalid parameters are rejected before any simulation step is taken:
\* no BatterySim is constructed with capacity <= 0, and no step changes soc
\* when a load_kw < 0 is supplied.
C19_InvalidParametersRejected ==
    /\ capacity > 0
    /\ (hist.steps >= 1 /\ hist.ld < 0) => soc = hist.pre

\* C20: two BatterySim instances share no mutable state.  A call of step,
\* simulate_runtime or simulate_until_targets on a copy seeded with the live
\* instance's capacity and soc leaves the live instance's soc and capacity
\* as they were; the instance the call is made on keeps its capacity, has
\* its soc at the value of the last simulated step when the call returns,
\* and keeps that soc after the return (it is not restored).
C20_InstancesShareNoState ==
    [][/\ other' = other
       /\ capacity' = capacity
       /\ (pc' = "done" /\ hist'.steps >= 1) =>
              soc' = Max(0, Min(capacity, hist'.pre + ChargeOf(hist'.gen, hist'.dt))
                            - DischargeOf(hist'.ld, hist'.dt))
       /\ pc = "done" => soc' = soc]_vars

\* C20 witness: a simulation on the copy has returned after two or more
\* steps with the copy's soc moved away from the soc it started with, which
\* the live instance still has.
C20_Witness ==
    /\ other # NoInstance
    /\ Returned("simulate_runtime") /\ hist.steps >= 2
    /\ capacity = other.capacity
    /\ other.soc = hist.soc0 /\ calls = 0
    /\ soc # other.soc

InLoop == pc = "runtime"

\* the pass in which the cursor is on the last sample, for a sorted forecast:
\* the first pass whose simulated time has come up to the last timestamp
LastPass ==
    IF Len(forecast) < 2 THEN 1
    ELSE Max(1, 1 + (forecast[Len(forecast)].ts - start + SIM_STEP - 1) \div SIM_STEP)

\* C21: simulate_runtime and simulate_until_targets terminate for every
\* finite forecast, load and start time: a call in its loop ends, it never
\* takes more passes than the one in which the cursor is on the last forecast
\* sample, and simulate_runtime returns because the battery is depleted or
\* because the forecast is exhausted; a simulate_until_targets call ends at
\* once, without a pass.
C21_LoopsTerminate ==
    /\ [](op \in {"simulate_runtime", "simulate_until_targets"} =>
             /\ hist.steps <= LastPass
             /\ Returned("simulate_runtime") => (result.depleted \/ hist.exhausted)
             /\ op = "simulate_until_targets" => (pc = "done" /\ hist.steps = 0))
    /\ (InLoop ~> pc = "done")

\* C21 witness: simulate_runtime has returned undepleted from its last
\* possible pass, the fourth or a later one.
C21_Witness ==
    /\ Returned("simulate_runtime") /\ ~result.depleted
    /\ hist.steps = LastPass /\ hist.steps >= 4

InSimulation == op \in {"simulate_runtime", "simulate_until_targets"} /\ hist.steps >= 1

\* the simulated time at which the last step was taken
StepTime == t - SIM_STEP

\* the forecast samples (by index) with timestamp <= the time of the last step
Known == {k \in 1..Len(forecast) : forecast[k].ts <= StepTime}

\* the generation of the latest known sample
HeldGeneration ==
    forecast[CHOOSE k \in Known : \A m \in Known : m <= k].wind_kw

\* C22: in every step of simulate_runtime and simulate_until_targets the
\* generation passed to step is the wind_kw of the latest forecast sample
\* whose timestamp is <= the simulated time (never an interpolated or a
\* future value: none when no sample is that early), for every sorted
\* forecast and start time, a start before the first timestamp included.
C22_StaircaseHold ==
    InSimulation =>
        IF Known # {} THEN hist.gen = HeldGeneration ELSE hist.gen = 0

\* the same with a start at or after the first timestamp
C22_StaircaseHoldFromFirstSample ==
    (InSimulation /\ Known # {}) => hist.gen = HeldGeneration

\* the simulated times at which a pass of the loop ends
PassEnds == {start + k * SIM_STEP : k \in 1..8}

\* C23: simulate_until_targets returns, for a target above the soc at call
\* time that the soc comes up to, an eta that is the simulated time at the
\* end of a step (start + k * SIM_STEP, k >= 1), the first after which
\* soc >= target.
C23_EtaAtFirstReach ==
    Returned("simulate_until_targets") =>
        /\ MappingOfTargets
        /\ \A x \in targets_kwh :
              (hist.soc0 < x /\ x <= soc) =>
                  \E e \in result[x].eta : e \in PassEnds

\* the end index the search of _find_windows finds for start index a; one
\* past the series when there is none
EndIndex(a) ==
    LET j == BinarySearch(Prefix(call.p_kw, call.step_minutes), a, call.need_kwh,
                          a + 1, Len(call.ts), None, call.rnd.lost)
    IN  IF j = None THEN Len(call.ts) + 1 ELSE CHOOSE b \in j : TRUE

\* the end pointer moved forward from b until [a, b) passes the test of
\* line 128, made on the same prefix sums
RECURSIVE Advance(_, _, _, _, _)
Advance(pref, a, need_kwh, b, lost) ==
    IF b > Len(pref) - 1 \/ Suffices(pref, a, b, need_kwh, lost)
    THEN b
    ELSE Advance(pref, a, need_kwh, b + 1, lost)

\* the loop of _find_windows with the end index found by a pointer st.j that
\* is carried from one start index to the next and never moves backwards
RECURSIVE TwoPointerLoop(_, _, _, _, _, _, _, _, _)
TwoPointerLoop(ts, p_kw, pref, step_minutes, need_kwh, min_power_kw, max_windows, st, rnd) ==
    LET a == st.i
        n == Len(ts)
        b == Advance(pref, a, need_kwh, Max(st.j, a + 1), rnd.lost)
        next == [st EXCEPT !.i = a + 1, !.j = b]
        out2 == Append(st.out, Window(ts, p_kw, pref, step_minutes, a, b))
    IN  IF a >= n THEN st.out
        ELSE IF b > n \/ BelowFloor(p_kw, a, b, min_power_kw, rnd.low)
        THEN TwoPointerLoop(ts, p_kw, pref, step_minutes, need_kwh, min_power_kw,
                            max_windows, next, rnd)
        ELSE IF Len(out2) >= max_windows
        THEN out2
        ELSE TwoPointerLoop(ts, p_kw, pref, step_minutes, need_kwh, min_power_kw,
                            max_windows, [next EXCEPT !.out = out2], rnd)

TwoPointer(ts, p_kw, step_minutes, need_kwh, min_power_kw, max_windows, rnd) ==
    IF ts = <<>> THEN <<>>
    ELSE TwoPointerLoop(ts, p_kw, Prefix(p_kw, step_minutes), step_minutes, need_kwh,
                        min_power_kw, max_windows, [i |-> 0, j |-> 0, out |-> <<>>], rnd)

\* C24: for non-negative power samples the minimal satisfying end index j(i)
\* of _find_windows never decreases as the start index i grows, and a
\* two-pointer sweep that never moves j backwards returns the same list of
\* windows as the binary search, for every series, need_kwh, floor and
\* max_windows.  The sweep makes the test of line 128 on the prefix sums of
\* lines 116-118, so that a difference the doubles put below need_kwh is
\* below it for both; the doubles of a non-negative series never decrease,
\* which is all the sweep needs.
C24_TwoPointerSameWindows ==
    (IsFindWindows /\ NonNegative(call.p_kw)) =>
        /\ \A a \in 0..(Len(call.ts) - 1) : \A c \in a..(Len(call.ts) - 1) :
              EndIndex(a) <= EndIndex(c)
        /\ ret = TwoPointer(call.ts, call.p_kw, call.step_minutes, call.need_kwh,
                            call.min_power_kw, call.max_windows, call.rnd)

\* C24 witness: a non-negative series with a floor and two windows of two or
\* more steps, the second ending later than the first (the end pointer moved
\* on from where the first left it), a start index with enough energy
\* rejected by the floor, and a last start index with no end at all.
C24_Witness ==
    /\ IsFindWindows /\ NonNegative(call.p_kw)
    /\ call.min_power_kw # None
    /\ Len(ret) >= 2
    /\ ret[1].steps >= 2 /\ ret[2].steps >= 2 /\ ret[2].end > ret[1].end
    /\ \E a \in Visited \ WindowStarts :
          EndIndex(a) <= Len(call.ts) /\ FloorBroken(a, EndIndex(a))
    /\ EndIndex(Len(call.ts) - 1) = Len(call.ts) + 1

\* the sweep on large prefix sums: an energy equal to need_kwh refused for
\* one start index and taken for the next, two windows of different length
C24_SweepOverRefusedTie ==
    /\ IsFindWindows /\ NonNegative(call.p_kw)
    /\ call.rnd.lost # {}
    /\ Len(ret) >= 2 /\ ret[1].steps > ret[2].steps
    /\ \E j \in LinearJ(call.p_kw, call.step_minutes, call.need_kwh, 0) : j < ret[1].steps

BothDone == \A th \in Threads : threads[th].pc = "done"

\* the soc after the operations of threads a and b, one after the other
SerialSteps(a, b) ==
    LET first == StepSoc(capacity, hist.soc0, threads[a].gen_kw, threads[a].load_kw,
                         threads[a].dt)
    IN  StepSoc(capacity, first, threads[b].gen_kw, threads[b].load_kw, threads[b].dt)

\* a thread inside an operation, at a load or a store of self.soc
AtAccess(th) == threads[th].pc \notin {"idle", "done"}

\* C25: nothing protects the instance: an operation that is at a load or a
\* store of soc is never held back, wherever the other operation is (between
\* its load and its store included), so loads and stores of two operations
\* interleave freely; among the interleavings is a lost update, a final soc
\* that neither serial order produces (the witness).
C25_NoLock ==
    \A th \in Threads :
        AtAccess(th) =>
            ENABLED (thread_load(th) \/ thread_store(th) \/ thread_check(th))

\* C25 witness: two step calls have returned and the soc they leave is the
\* outcome of neither serial order.
C25_Witness ==
    /\ BothDone
    /\ \A th \in Threads : threads[th].op = "step"
    /\ soc # SerialSteps(1, 2)
    /\ soc # SerialSteps(2, 1)

\* C26: every window a schedule operation returns spans its step count
\* times the step: end - start = steps * step_minutes, so that kwh is the
\* energy over the reported interval [start, end).
C26_WindowSpanIsStepsTimesStep ==
    IsSchedule =>
        \A k \in 1..Len(ret.windows) :
            ret.windows[k].end - ret.windows[k].start
                = ret.windows[k].steps * call.step_minutes

\* C27: for an input series with strictly increasing timestamps the
\* timestamps of the _interp_series output are strictly increasing (no
\* duplicates) and all lie within [first input timestamp, last input
\* timestamp].
C27_OutputIncreasingWithinInput ==
    (IsInterp /\ StrictlyIncreasingTs(call.points)) =>
        /\ \A k \in 1..(Len(ret) - 1) : ret[k].ts < ret[k + 1].ts
        /\ \A k \in 1..Len(ret) :
              /\ call.points[1].ts <= ret[k].ts
              /\ ret[k].ts <= call.points[Len(call.points)].ts

\* C27 witness: three samples with strictly increasing timestamps, the last
\* two a whole number of steps apart (the fill stops one step short of the
\* last sample), resampled to four or more points.
C27_Witness ==
    /\ IsInterp /\ Len(call.points) = 3 /\ StrictlyIncreasingTs(call.points)
    /\ (call.points[3].ts - call.points[2].ts) % call.step_minutes = 0
    /\ call.points[3].ts - call.points[2].ts >= 2 * call.step_minutes
    /\ Len(ret) >= 4
    /\ ret[Len(ret) - 1].ts = call.points[3].ts - call.step_minutes

\* the entry returned for a requested target
Entry(x) == result[x]

\* eta(a) <= eta(b): both are set and in this order
EtaNotAfter(a, b) ==
    \E ea \in Entry(a).eta : \E eb \in Entry(b).eta : ea <= eb

\* C28: within one simulate_until_targets call the results are monotone in
\* the target value: for requested targets a < b, if b is returned reachable
\* then a is returned reachable and eta(a) <= eta(b).
C28_MonotoneInTarget ==
    Returned("simulate_until_targets") =>
        /\ MappingOfTargets
        /\ \A a \in targets_kwh : \A b \in targets_kwh :
              (a < b /\ Entry(b).reachable) => (Entry(a).reachable /\ EtaNotAfter(a, b))

\* C29: the mapping returned by simulate_until_targets has an entry for
\* every requested target, keyed by the value as requested, and in every
\* entry reachable = true exactly when eta is not null.
C29_EntryPerTargetEtaIffReachable ==
    Returned("simulate_until_targets") =>
        /\ ~Raised
        /\ targets_kwh \subseteq DOMAIN result
        /\ \A x \in DOMAIN result : result[x].reachable <=> result[x].eta # None

\* the run still open at the end of the series, if there is one
OpenRuns == {run \in MaximalRuns : run[2] = Len(call.forecast)}

\* C30: for a forecast with strictly increasing timestamps the windows of
\* green_windows are in increasing time order and do not overlap (each
\* window's start is later than the previous window's end), every forecast
\* sample with start <= ts < end has margin >= 0, and a run still open at the
\* end of the series is closed with end = the final sample's timestamp.
C30_WindowsOrderedDisjointGreen ==
    (IsGreen /\ StrictlyIncreasingTs(call.forecast)) =>
        /\ \A k \in 1..Len(ret) : ret[k].start <= ret[k].end
        /\ \A k \in 1..(Len(ret) - 1) : ret[k].end < ret[k + 1].start
        /\ \A k \in 1..Len(ret) : \A m \in 1..Len(call.forecast) :
              (ret[k].start <= call.forecast[m].ts /\ call.forecast[m].ts < ret[k].end)
                  => MarginOk(m)
        /\ \A run \in OpenRuns :
              LongEnough(run) =>
                  /\ ret # <<>>
                  /\ ret[Len(ret)].start = call.forecast[run[1]].ts
                  /\ ret[Len(ret)].end = call.forecast[Len(call.forecast)].ts

\* C30 witness: two windows, the first closed by a sample with negative
\* margin, the second a run of two samples still open at the end of the
\* series and closed at the final timestamp.
C30_Witness ==
    /\ IsGreen /\ StrictlyIncreasingTs(call.forecast)
    /\ Len(ret) = 2
    /\ \E m \in 1..Len(call.forecast) :
          ~MarginOk(m) /\ ret[1].end = call.forecast[m].ts
    /\ \E run \in OpenRuns : run[1] < run[2] /\ IsWindowOf(ret[2], run)
    /\ ret[2].end = call.forecast[Len(call.forecast)].ts

====
